---- MODULE Spec2Model ----
(***************************************************************************)
(* Roadmap builder: the working-day calendar, the sprint mapper and the    *)
(* subtask allocator (utils/workingDays.ts, utils/subtaskAllocation.ts),   *)
(* driven by the sprint configuration held in the store.                   *)
(*                                                                         *)
(* A Date is the number of calendar days since 1970-01-01 (every Date the  *)
(* utilities handle is a local midnight, and date-fns addDays keeps it     *)
(* one).  An ISO date string 'yyyy-MM-dd' is the triple <<y, m, d>>.       *)
(***************************************************************************)
EXTENDS Integers, Sequences, FiniteSets, TLC

VARIABLES
    sprintConfig,   \* the store's SprintConfig
    call,           \* the utility call in progress: [fn, args, result], or NoCall
    scan,           \* getSprintForDate run step by step: [pc, date, sprintNum]
    items,          \* the store's items, in list order
    settings        \* the store's other fields: markers, display and filter settings

vars == <<sprintConfig, call, scan, items, settings>>

----------------------------------------------------------------------------
(* Bounds of the explored inputs *)

MaxDateOffset == 24        \* dates passed in: FirstDate .. FirstDate + MaxDateOffset
MaxN == 7                  \* working days added: -1 .. MaxN
MaxTotal == 26             \* totalWorkingDays passed to allocateWorkingDays
MaxWorkingDaysPerSprint == 3   \* configured sprint lengths: 0 .. this, and the default
MaxSprintOffset == 2       \* sprint numbers: firstSprintNumber -/+ this
MaxSprintCount == 3        \* count passed to generateSprints

----------------------------------------------------------------------------
(* date-fns and Math helpers *)

Max(a, b) == IF a >= b THEN a ELSE b

\* a slip: Math.floor in place of Math.round
RoundFifth_Floor(total) == total \div 5

\* a slip: the share taken as 0.40, Math.round(total * 0.4)
RoundFifth_TwoFifths(total) == (4 * total + 5) \div 10

\* Math.round(totalWorkingDays * 0.2): round half up, floor(x + 0.5), of total/5.
\* The products of an integer with 0.2 have fractional part 0, .2, .4, .6 or .8,
\* so the floating-point product never sits on a tie.
RoundFifth(total) == (2 * total + 5) \div 10

\* Math.ceil(excess / 2) and Math.floor(excess / 2)
CeilHalf(excess) == (excess + 1) \div 2
FloorHalf(excess) == excess \div 2

\* parseISO('yyyy-MM-dd'): the local midnight of that calendar day, as a day number
\* (the proleptic Gregorian calendar, days since 1970-01-01).
parseISO(iso) ==
    LET y   == IF iso[2] <= 2 THEN iso[1] - 1 ELSE iso[1]
        era == y \div 400
        yoe == y - era * 400
        mp  == IF iso[2] > 2 THEN iso[2] - 3 ELSE iso[2] + 9
        doy == (153 * mp + 2) \div 5 + iso[3] - 1
        doe == yoe * 365 + yoe \div 4 - yoe \div 100 + doy
    IN  era * 146097 + doe - 719468

\* format(date, 'yyyy-MM-dd')
toISODateString(date) ==
    LET z   == date + 719468
        era == z \div 146097
        doe == z - era * 146097
        yoe == (doe - doe \div 1460 + doe \div 36524 - doe \div 146096) \div 365
        doy == doe - (365 * yoe + yoe \div 4 - yoe \div 100)
        mp  == (5 * doy + 2) \div 153
        d   == doy - (153 * mp + 2) \div 5 + 1
        m   == IF mp < 10 THEN mp + 3 ELSE mp - 9
        y   == yoe + era * 400 + (IF m <= 2 THEN 1 ELSE 0)
    IN  <<y, m, d>>

fromISODateString(dateStr) == parseISO(dateStr)

addDays(date, amount) == date + amount

\* Date.prototype.getDay(): 0 = Sunday .. 6 = Saturday (1970-01-01 was a Thursday)
getDay(date) == (date + 4) % 7

----------------------------------------------------------------------------
(* utils/workingDays.ts *)

isWeekend(date) ==
    LET day == getDay(date)
    IN  day = 0 \/ day = 6

\* the callers' test for a working day: !isWeekend(current)
isWorkingDay(date) == ~isWeekend(date)

RECURSIVE nextWorkingDay(_)
nextWorkingDay(date) ==
    IF isWeekend(date) THEN nextWorkingDay(addDays(date, 1)) ELSE date

\* a slip: the loop counts every calendar day, weekends included
AddLoop_CountsWeekends(current, daysAdded, n) == current + Max(0, n - daysAdded)

\* the loop of addWorkingDays: while (daysAdded < n) { current++; if working, daysAdded++ }
RECURSIVE AddLoop(_, _, _)
AddLoop(current, daysAdded, n) ==
    IF daysAdded < n
    THEN LET next == addDays(current, 1)
         IN  AddLoop(next, IF ~isWeekend(next) THEN daysAdded + 1 ELSE daysAdded, n)
    ELSE current

\* a slip: the loop test written daysAdded <= n
addWorkingDays_OneMore(date, n) == AddLoop(nextWorkingDay(date), 0, n + 1)

addWorkingDays(date, n) == AddLoop(nextWorkingDay(date), 0, n)

\* the loop of countWorkingDays: while (current <= end) { if working, count++; current++ }
RECURSIVE CountLoop(_, _, _)
CountLoop(current, end, count) ==
    IF current <= end
    THEN CountLoop(addDays(current, 1), end,
                   IF ~isWeekend(current) THEN count + 1 ELSE count)
    ELSE count

\* a slip: the loop test written current < end, leaving the end date out
countWorkingDays_ExclusiveEnd(start, end) ==
    IF end < start THEN 0 ELSE CountLoop(start, end - 1, 0)

countWorkingDays(start, end) ==
    IF end < start THEN 0 ELSE CountLoop(start, end, 0)

sprintStartDate(sprintNumber, config) ==
    LET firstStart == parseISO(config.firstSprintStartDate)
        sprintDiff == sprintNumber - config.firstSprintNumber
        totalWorkingDays == sprintDiff * config.workingDaysPerSprint
    IN  IF sprintDiff = 0
        THEN nextWorkingDay(firstStart)
        ELSE addWorkingDays(firstStart, totalWorkingDays)

\* a slip: the end taken workingDaysPerSprint working days after the start
sprintEndDate_FullLength(sprintNumber, config) ==
    addWorkingDays(sprintStartDate(sprintNumber, config), config.workingDaysPerSprint)

sprintEndDate(sprintNumber, config) ==
    LET start == sprintStartDate(sprintNumber, config)
    IN  addWorkingDays(start, config.workingDaysPerSprint - 1)

getSprintInfo(sprintNumber, config) ==
    [number    |-> sprintNumber,
     startDate |-> sprintStartDate(sprintNumber, config),
     endDate   |-> sprintEndDate(sprintNumber, config)]

generateSprints(startSprint, count, config) ==
    [i \in 1..count |-> getSprintInfo(startSprint + (i - 1), config)]

\* the safety check of getSprintForDate: sprintNum > firstSprintNumber + 1000
SCAN_LIMIT == 1000

\* the while (true) loop of getSprintForDate over the sprints lo..hi, in ascending
\* order: the first sprintNum with date <= sprintEndDate(sprintNum), and hi + 1 when
\* the loop leaves through its safety check.  The range is walked by halves, left
\* half first, which visits the sprints in the loop's order and stops at the first
\* hit while keeping the evaluation shallow.
RECURSIVE ScanLoop(_, _, _, _)
ScanLoop(lo, hi, date, config) ==
    IF lo = hi
    THEN IF date <= sprintEndDate(lo, config) THEN lo ELSE lo + 1
    ELSE LET mid  == (lo + hi) \div 2
             left == ScanLoop(lo, mid, date, config)
         IN  IF left <= mid THEN left ELSE ScanLoop(mid + 1, hi, date, config)

\* a slip: the test for a date before the first sprint left out
getSprintForDate_NoBeforeCheck(date, config) ==
    ScanLoop(config.firstSprintNumber, config.firstSprintNumber + SCAN_LIMIT, date, config)

getSprintForDate(date, config) ==
    LET firstStart == parseISO(config.firstSprintStartDate)
    IN  IF date < firstStart
        THEN config.firstSprintNumber - 1
        ELSE ScanLoop(config.firstSprintNumber,
                      config.firstSprintNumber + SCAN_LIMIT, date, config)

----------------------------------------------------------------------------
(* utils/subtaskAllocation.ts *)

SUBTASK_ORDER == <<"REQ_UX", "DEV", "QA">>

\* a slip: the development share taken from its own percentage, Math.round(total * 0.6)
BalancedAllocation_DevByShare(totalWorkingDays) ==
    [REQ_UX |-> Max(1, RoundFifth(totalWorkingDays)),
     DEV    |-> (6 * totalWorkingDays + 5) \div 10,
     QA     |-> Max(1, RoundFifth(totalWorkingDays))]

\* lines 52-73 of allocateWorkingDays: the raw allocations and the rebalancing
BalancedAllocation(totalWorkingDays) ==
    LET minDays  == IF totalWorkingDays >= 3 THEN 1 ELSE 0
        reqDays0 == Max(minDays, RoundFifth(totalWorkingDays))
        qaDays0  == Max(minDays, RoundFifth(totalWorkingDays))
        devDays0 == totalWorkingDays - reqDays0 - qaDays0
        rebalance == devDays0 < minDays /\ totalWorkingDays >= 3
        excess   == reqDays0 + qaDays0 + minDays - totalWorkingDays
        reqDays  == IF rebalance /\ excess > 0 /\ reqDays0 > minDays
                    THEN Max(minDays, reqDays0 - CeilHalf(excess))
                    ELSE reqDays0
        qaDays   == IF rebalance /\ excess > 0 /\ qaDays0 > minDays
                    THEN Max(minDays, qaDays0 - FloorHalf(excess))
                    ELSE qaDays0
        devDays  == IF rebalance
                    THEN IF excess > 0
                         THEN totalWorkingDays - reqDays - qaDays
                         ELSE minDays
                    ELSE devDays0
    IN  [REQ_UX |-> reqDays, DEV |-> devDays, QA |-> qaDays]

\* a slip: the small-range test written totalWorkingDays <= 3
allocateWorkingDays_SmallUpTo3(totalWorkingDays) ==
    IF totalWorkingDays <= 3
    THEN IF totalWorkingDays = 1 THEN [REQ_UX |-> 0, DEV |-> 1, QA |-> 0]
         ELSE IF totalWorkingDays = 2 THEN [REQ_UX |-> 0, DEV |-> 1, QA |-> 1]
         ELSE [REQ_UX |-> 0, DEV |-> 0, QA |-> 0]
    ELSE BalancedAllocation(totalWorkingDays)

allocateWorkingDays(totalWorkingDays) ==
    IF totalWorkingDays < 3
    THEN IF totalWorkingDays = 1 THEN [REQ_UX |-> 0, DEV |-> 1, QA |-> 0]
         ELSE IF totalWorkingDays = 2 THEN [REQ_UX |-> 0, DEV |-> 1, QA |-> 1]
         ELSE [REQ_UX |-> 0, DEV |-> 0, QA |-> 0]
    ELSE BalancedAllocation(totalWorkingDays)

\* an optional field that is undefined (a date string is a triple, never empty)
Undefined == <<>>

\* a slip: the next phase starts on the day the previous one ends
NextCursor_SameDay(end) == end

\* currentStart = addDays(end, 1): the calendar day after a phase's end
NextCursor(end) == addDays(end, 1)

\* a slip: the end taken days working days after the start
PhaseEnd_FullDays(start, days) == addWorkingDays(start, days)

\* end = addWorkingDays(start, days - 1)
PhaseEnd(start, days) == addWorkingDays(start, days - 1)

\* the for (const type of SUBTASK_ORDER) loop shared by generateSubtasks and
\* generateSubtasksFromDates, from the i-th type on: currentStart is the cursor,
\* placeholder the date string a zero-day subtask carries, ids the values uuidv4()
\* returns.
RECURSIVE BuildSubtasks(_, _, _, _, _)
BuildSubtasks(i, currentStart, allocation, placeholder, ids) ==
    IF i > Len(SUBTASK_ORDER)
    THEN <<>>
    ELSE LET type  == SUBTASK_ORDER[i]
             days  == allocation[type]
             start == nextWorkingDay(currentStart)
             end   == PhaseEnd(start, days)
         IN  IF days > 0
             THEN <<[id |-> ids[i], type |-> type,
                     autoStartDate |-> toISODateString(start),
                     autoEndDate   |-> toISODateString(end),
                     overrideStartDate |-> Undefined,
                     overrideEndDate   |-> Undefined]>>
                  \o BuildSubtasks(i + 1, NextCursor(end), allocation, placeholder, ids)
             ELSE <<[id |-> ids[i], type |-> type,
                     autoStartDate |-> placeholder,
                     autoEndDate   |-> placeholder,
                     overrideStartDate |-> Undefined,
                     overrideEndDate   |-> Undefined]>>
                  \o BuildSubtasks(i + 1, currentStart, allocation, placeholder, ids)

\* a slip: the zero-day placeholder taken from the item's end
generateSubtasks_PlaceholderAtEnd(startSprint, endSprint, config, ids) ==
    LET itemStart == sprintStartDate(startSprint, config)
        itemEnd   == sprintEndDate(endSprint, config)
    IN  BuildSubtasks(1, itemStart,
                      allocateWorkingDays(countWorkingDays(itemStart, itemEnd)),
                      toISODateString(itemEnd), ids)

generateSubtasks(startSprint, endSprint, config, ids) ==
    LET itemStart        == sprintStartDate(startSprint, config)
        itemEnd          == sprintEndDate(endSprint, config)
        totalWorkingDays == countWorkingDays(itemStart, itemEnd)
        allocation       == allocateWorkingDays(totalWorkingDays)
    IN  BuildSubtasks(1, itemStart, allocation, toISODateString(itemStart), ids)

\* a slip: an override counts only when both of its dates are set
getEffectiveDates_BothOrNone(subtask) ==
    IF subtask.overrideStartDate # Undefined /\ subtask.overrideEndDate # Undefined
    THEN [start |-> subtask.overrideStartDate, end |-> subtask.overrideEndDate]
    ELSE [start |-> subtask.autoStartDate, end |-> subtask.autoEndDate]

\* subtask.overrideStartDate || subtask.autoStartDate, and likewise for the end
getEffectiveDates(subtask) ==
    [start |-> IF subtask.overrideStartDate # Undefined
               THEN subtask.overrideStartDate ELSE subtask.autoStartDate,
     end   |-> IF subtask.overrideEndDate # Undefined
               THEN subtask.overrideEndDate ELSE subtask.autoEndDate]

\* new Date('yyyy-MM-dd'): the (UTC) midnight of that day, as a day number
NewDate(dateStr) == parseISO(dateStr)

\* validateSubtaskOverride returns null or one of these messages
Valid == "null"
EndBeforeStart == "End date must be on or after start date"
StartBeforeItemStart == "Start date cannot be before item start date"
EndAfterItemEnd == "End date cannot be after item end date"

\* a slip: the containment checks made before the ordering check
validateSubtaskOverride_BoundsFirst(subtask, itemStartDate, itemEndDate) ==
    LET eff == getEffectiveDates(subtask)
    IN  IF NewDate(eff.start) < NewDate(itemStartDate) THEN StartBeforeItemStart
        ELSE IF NewDate(eff.end) > NewDate(itemEndDate) THEN EndAfterItemEnd
        ELSE IF NewDate(eff.end) < NewDate(eff.start) THEN EndBeforeStart
        ELSE Valid

validateSubtaskOverride(subtask, itemStartDate, itemEndDate) ==
    LET eff == getEffectiveDates(subtask)
    IN  IF NewDate(eff.end) < NewDate(eff.start) THEN EndBeforeStart
        ELSE IF NewDate(eff.start) < NewDate(itemStartDate) THEN StartBeforeItemStart
        ELSE IF NewDate(eff.end) > NewDate(itemEndDate) THEN EndAfterItemEnd
        ELSE Valid

\* a slip: the date form counts the range without its last day
generateSubtasksFromDates_EndExclusive(startDateStr, endDateStr, ids) ==
    LET itemStart == fromISODateString(startDateStr)
        itemEnd   == fromISODateString(endDateStr)
    IN  BuildSubtasks(1, itemStart,
                      allocateWorkingDays(countWorkingDays(itemStart, itemEnd - 1)),
                      startDateStr, ids)

generateSubtasksFromDates(startDateStr, endDateStr, ids) ==
    LET itemStart        == fromISODateString(startDateStr)
        itemEnd          == fromISODateString(endDateStr)
        totalWorkingDays == countWorkingDays(itemStart, itemEnd)
        allocation       == allocateWorkingDays(totalWorkingDays)
    IN  BuildSubtasks(1, itemStart, allocation, startDateStr, ids)

\* currentSubtasks.find((s) => s.type === type): the first of that type, if any
FindByType(subtasks, type) ==
    LET found == SelectSeq(subtasks, LAMBDA st : st.type = type)
    IN  IF found = <<>> THEN Undefined ELSE found[1]

\* a slip: the fresh subtasks returned as they are, overrides forgotten
recalculateSubtasks_DropAll(currentSubtasks, startSprint, endSprint, config, ids) ==
    generateSubtasks(startSprint, endSprint, config, ids)

\* a slip: the overrides carried over without validating them
recalculateSubtasks_KeepAll(currentSubtasks, startSprint, endSprint, config, ids) ==
    LET newSubtasks == generateSubtasks(startSprint, endSprint, config, ids)
    IN  [i \in 1 .. Len(newSubtasks) |->
            LET existing == FindByType(currentSubtasks, newSubtasks[i].type)
            IN  IF existing # Undefined
                THEN [newSubtasks[i] EXCEPT
                        !.overrideStartDate = existing.overrideStartDate,
                        !.overrideEndDate = existing.overrideEndDate]
                ELSE newSubtasks[i]]

\* a slip: a subtask whose carried override fails the validation is left out
recalculateSubtasks_FilterInvalid(currentSubtasks, startSprint, endSprint, config, ids) ==
    LET newSubtasks == generateSubtasks(startSprint, endSprint, config, ids)
        itemStart   == toISODateString(sprintStartDate(startSprint, config))
        itemEnd     == toISODateString(sprintEndDate(endSprint, config))
        carriedOver == [i \in 1 .. Len(newSubtasks) |->
                          LET existing == FindByType(currentSubtasks, newSubtasks[i].type)
                          IN  IF existing # Undefined
                              THEN [newSubtasks[i] EXCEPT
                                      !.overrideStartDate = existing.overrideStartDate,
                                      !.overrideEndDate = existing.overrideEndDate]
                              ELSE newSubtasks[i]]
    IN  SelectSeq(carriedOver,
                  LAMBDA st : validateSubtaskOverride(st, itemStart, itemEnd) = Valid)

recalculateSubtasks(currentSubtasks, startSprint, endSprint, config, ids) ==
    LET newSubtasks == generateSubtasks(startSprint, endSprint, config, ids)
        itemStart   == toISODateString(sprintStartDate(startSprint, config))
        itemEnd     == toISODateString(sprintEndDate(endSprint, config))
    IN  [i \in 1 .. Len(newSubtasks) |->
            LET newSubtask == newSubtasks[i]
                existing   == FindByType(currentSubtasks, newSubtask.type)
                carried    == [newSubtask EXCEPT
                                 !.overrideStartDate = existing.overrideStartDate,
                                 !.overrideEndDate = existing.overrideEndDate]
            IN  IF /\ existing # Undefined
                   /\ (existing.overrideStartDate # Undefined
                       \/ existing.overrideEndDate # Undefined)
                   /\ validateSubtaskOverride(carried, itemStart, itemEnd) = Valid
                THEN carried
                ELSE newSubtask]

----------------------------------------------------------------------------
(* The store's sprint configuration *)

DEFAULT_CONFIG ==
    [firstSprintNumber    |-> 71,
     firstSprintStartDate |-> <<2026, 1, 1>>,
     workingDaysPerSprint |-> 10,
     weekendDays          |-> {0, 6}]

\* the dates handed to the utilities: three weeks and a half from 2025-12-28
FirstDate == parseISO(<<2025, 12, 28>>)
Dates == FirstDate .. (FirstDate + MaxDateOffset)

\* the values a settings update may carry
SprintNumberChoices == {DEFAULT_CONFIG.firstSprintNumber, DEFAULT_CONFIG.firstSprintNumber + 1}
StartDateChoices == {toISODateString(d) : d \in (FirstDate + 4) .. (FirstDate + 10)}
WorkingDaysChoices == (0 .. MaxWorkingDaysPerSprint) \cup {DEFAULT_CONFIG.workingDaysPerSprint}
WeekendChoices == {{0, 6}, {5, 6}}

NoCall == [fn |-> "none", args |-> <<>>, result |-> 0]

DEFAULT_SPRINT_COUNT == 26
DEFAULT_TIMING_UNIT == "sprints"

\* POOL_ITEMS of data/poolItems, imported as DEFAULT_POOL_ITEMS: a backlog of
\* numbered pool items
DEFAULT_POOL_ITEMS == <<[number |-> 1], [number |-> 2]>>

\* the initial value of the store's fields other than sprintConfig and items
DefaultSettings ==
    [releaseMarkers       |-> <<>>,
     codeFreezeMarkers    |-> <<>>,
     displaySprintCount   |-> DEFAULT_SPRINT_COUNT,
     timingUnit           |-> DEFAULT_TIMING_UNIT,
     poolItems            |-> DEFAULT_POOL_ITEMS,
     showSprintActivities |-> FALSE,
     selectedCategories   |-> <<>>,
     showExternalOnly     |-> FALSE,
     snapMode             |-> "day"]

\* getSprintForDate is not running
NoScan == [pc |-> "idle", date |-> 0, sprintNum |-> 0]

Init ==
    /\ sprintConfig = DEFAULT_CONFIG
    /\ call = NoCall
    /\ scan = NoScan
    /\ items = <<>>
    /\ settings = DefaultSettings

\* updateSprintConfig(updates: Partial<SprintConfig>): one field per update
updateSprintConfig ==
    /\ call = NoCall
    /\ \/ \E v \in SprintNumberChoices :
            sprintConfig' = [sprintConfig EXCEPT !.firstSprintNumber = v]
       \/ \E v \in StartDateChoices :
            sprintConfig' = [sprintConfig EXCEPT !.firstSprintStartDate = v]
       \/ \E v \in WorkingDaysChoices :
            sprintConfig' = [sprintConfig EXCEPT !.workingDaysPerSprint = v]
       \/ \E v \in WeekendChoices :
            sprintConfig' = [sprintConfig EXCEPT !.weekendDays = v]
    /\ UNCHANGED <<call, scan, items, settings>>

CallIsWeekend ==
    /\ call = NoCall
    /\ \E d \in Dates :
         call' = [fn |-> "isWeekend", args |-> <<d>>, result |-> isWeekend(d)]
    /\ UNCHANGED <<sprintConfig, scan, items, settings>>

CallNextWorkingDay ==
    /\ call = NoCall
    /\ \E d \in Dates :
         call' = [fn |-> "nextWorkingDay", args |-> <<d>>, result |-> nextWorkingDay(d)]
    /\ UNCHANGED <<sprintConfig, scan, items, settings>>

CallAddWorkingDays ==
    /\ call = NoCall
    /\ \E d \in Dates, n \in (-1) .. MaxN :
         call' = [fn |-> "addWorkingDays", args |-> <<d, n>>,
                  result |-> addWorkingDays(d, n)]
    /\ UNCHANGED <<sprintConfig, scan, items, settings>>

CallCountWorkingDays ==
    /\ call = NoCall
    /\ \E s \in Dates, e \in Dates :
         call' = [fn |-> "countWorkingDays", args |-> <<s, e>>,
                  result |-> countWorkingDays(s, e)]
    /\ UNCHANGED <<sprintConfig, scan, items, settings>>

CallGenerateSprints ==
    /\ call = NoCall
    /\ \E s \in (sprintConfig.firstSprintNumber - MaxSprintOffset)
                 .. (sprintConfig.firstSprintNumber + MaxSprintOffset),
          c \in 0 .. MaxSprintCount :
         call' = [fn |-> "generateSprints", args |-> <<s, c>>,
                  result |-> generateSprints(s, c, sprintConfig)]
    /\ UNCHANGED <<sprintConfig, scan, items, settings>>

CallGetSprintForDate ==
    /\ call = NoCall
    /\ \E d \in Dates :
         call' = [fn |-> "getSprintForDate", args |-> <<d>>,
                  result |-> getSprintForDate(d, sprintConfig)]
    /\ UNCHANGED <<sprintConfig, scan, items, settings>>

CallAllocateWorkingDays ==
    /\ call = NoCall
    /\ \E t \in 0 .. MaxTotal :
         call' = [fn |-> "allocateWorkingDays", args |-> <<t>>,
                  result |-> allocateWorkingDays(t)]
    /\ UNCHANGED <<sprintConfig, scan, items, settings>>

\* the call returns to its caller
Return ==
    /\ call # NoCall
    /\ call' = NoCall
    /\ UNCHANGED <<sprintConfig, scan, items, settings>>

Next ==
    \/ updateSprintConfig
    \/ CallIsWeekend
    \/ CallNextWorkingDay
    \/ CallAddWorkingDays
    \/ CallCountWorkingDays
    \/ CallGenerateSprints
    \/ CallGetSprintForDate
    \/ CallAllocateWorkingDays
    \/ Return

Spec == Init /\ [][Next]_vars

----------------------------------------------------------------------------
(* The subtask utilities, called on bounded inputs *)

\* configurations the sprint-based utilities are called under
AllocConfigs ==
    {[DEFAULT_CONFIG EXCEPT !.workingDaysPerSprint = w, !.firstSprintStartDate = a] :
        w \in (1 .. MaxWorkingDaysPerSprint) \cup {DEFAULT_CONFIG.workingDaysPerSprint},
        a \in {<<2026, 1, 1>>, <<2026, 1, 3>>}}

\* the values uuidv4() returns to one generateSubtasks call, and to a later one
FirstIds == <<1, 2, 3>>
LaterIds == <<4, 5, 6>>

\* dates a user may type into an override field, and dates a subtask or an item carries
OverrideDateChoices ==
    {<<2026, 1, 2>>, <<2026, 1, 6>>, <<2026, 1, 13>>, <<2026, 1, 14>>,
     <<2026, 1, 20>>, <<2026, 1, 25>>}
OverrideChoices == OverrideDateChoices \cup {Undefined}
AutoDateChoices == {<<2026, 1, 5>>, <<2026, 1, 12>>}
ItemDateChoices == {<<2026, 1, 1>>, <<2026, 1, 14>>, <<2026, 1, 28>>}

SubtaskChoices ==
    {[id |-> FirstIds[2], type |-> SUBTASK_ORDER[2],
      autoStartDate |-> a, autoEndDate |-> b,
      overrideStartDate |-> os, overrideEndDate |-> oe] :
        a \in AutoDateChoices, b \in AutoDateChoices,
        os \in OverrideChoices, oe \in OverrideChoices}

\* updateSubtaskOverride's map over one item's subtasks: the i-th gets the overrides
WithOverride(subtasks, i, os, oe) ==
    [subtasks EXCEPT ![i].overrideStartDate = os, ![i].overrideEndDate = oe]

RecalcSprints(config) == {config.firstSprintNumber, config.firstSprintNumber + 1}

AllocInit ==
    /\ sprintConfig \in AllocConfigs
    /\ call = NoCall
    /\ scan = NoScan
    /\ items = <<>>
    /\ settings = DefaultSettings

CallGenerateSubtasks ==
    /\ call = NoCall
    /\ \E s \in (sprintConfig.firstSprintNumber - MaxSprintOffset)
                 .. (sprintConfig.firstSprintNumber + MaxSprintOffset),
          e \in (sprintConfig.firstSprintNumber - MaxSprintOffset)
                 .. (sprintConfig.firstSprintNumber + MaxSprintOffset) :
         call' = [fn |-> "generateSubtasks", args |-> <<s, e>>,
                  result |-> generateSubtasks(s, e, sprintConfig, FirstIds)]
    /\ UNCHANGED <<sprintConfig, scan, items, settings>>

CallGenerateSubtasksFromDates ==
    /\ call = NoCall
    /\ \E s \in Dates, e \in Dates :
         call' = [fn |-> "generateSubtasksFromDates",
                  args |-> <<toISODateString(s), toISODateString(e)>>,
                  result |-> generateSubtasksFromDates(toISODateString(s),
                                                       toISODateString(e), FirstIds)]
    /\ UNCHANGED <<sprintConfig, scan, items, settings>>

CallGetEffectiveDates ==
    /\ call = NoCall
    /\ \E st \in SubtaskChoices :
         call' = [fn |-> "getEffectiveDates", args |-> <<st>>,
                  result |-> getEffectiveDates(st)]
    /\ UNCHANGED <<sprintConfig, scan, items, settings>>

CallValidateSubtaskOverride ==
    /\ call = NoCall
    /\ \E st \in SubtaskChoices, is \in ItemDateChoices, ie \in ItemDateChoices :
         call' = [fn |-> "validateSubtaskOverride", args |-> <<st, is, ie>>,
                  result |-> validateSubtaskOverride(st, is, ie)]
    /\ UNCHANGED <<sprintConfig, scan, items, settings>>

\* recalculateSubtasks on the subtasks of an item of sprints s0..e0, one of them
\* overridden, for the sprints s..e
CallRecalculateSubtasks ==
    /\ call = NoCall
    /\ \E s0 \in RecalcSprints(sprintConfig), e0 \in RecalcSprints(sprintConfig),
          s \in RecalcSprints(sprintConfig), e \in RecalcSprints(sprintConfig),
          i \in 1 .. Len(SUBTASK_ORDER),
          os \in OverrideChoices, oe \in OverrideChoices :
         LET current == WithOverride(generateSubtasks(s0, e0, sprintConfig, FirstIds),
                                     i, os, oe)
         IN  call' = [fn |-> "recalculateSubtasks", args |-> <<current, s, e>>,
                      result |-> recalculateSubtasks(current, s, e, sprintConfig, LaterIds)]
    /\ UNCHANGED <<sprintConfig, scan, items, settings>>

AllocReturn ==
    /\ call # NoCall
    /\ call' = NoCall
    /\ UNCHANGED <<sprintConfig, scan, items, settings>>

AllocNext ==
    \/ CallGenerateSubtasks
    \/ CallGenerateSubtasksFromDates
    \/ CallGetEffectiveDates
    \/ CallValidateSubtaskOverride
    \/ CallRecalculateSubtasks
    \/ AllocReturn

AllocSpec == AllocInit /\ [][AllocNext]_vars

----------------------------------------------------------------------------
(* getSprintForDate, one loop iteration at a time *)

\* configurations the scan is run under, a zero and a negative sprint length included
ScanConfigs ==
    {[DEFAULT_CONFIG EXCEPT !.workingDaysPerSprint = w] :
        w \in ((-1) .. 1) \cup {MaxWorkingDaysPerSprint}}

\* a slip: the safety check fires one sprint early
ScanCapped_OneEarly(sprintNum, config) ==
    sprintNum >= config.firstSprintNumber + SCAN_LIMIT

\* if (sprintNum > config.firstSprintNumber + 1000)
ScanCapped(sprintNum, config) ==
    sprintNum > config.firstSprintNumber + SCAN_LIMIT

ScanInit ==
    /\ sprintConfig \in ScanConfigs
    /\ call = NoCall
    /\ scan = NoScan
    /\ items = <<>>
    /\ settings = DefaultSettings

\* entry: the test against the first sprint's start, then sprintNum = firstSprintNumber
ScanStart ==
    /\ scan.pc = "idle"
    /\ \E date \in Dates :
         IF date < parseISO(sprintConfig.firstSprintStartDate)
         THEN scan' = [pc |-> "done", date |-> date,
                       sprintNum |-> sprintConfig.firstSprintNumber - 1]
         ELSE scan' = [pc |-> "loop", date |-> date,
                       sprintNum |-> sprintConfig.firstSprintNumber]
    /\ UNCHANGED <<sprintConfig, call, items, settings>>

\* one iteration of while (true); in "done" sprintNum is the value returned
ScanStep ==
    /\ scan.pc = "loop"
    /\ IF scan.date <= sprintEndDate(scan.sprintNum, sprintConfig)
       THEN scan' = [scan EXCEPT !.pc = "done"]
       ELSE IF ScanCapped(scan.sprintNum + 1, sprintConfig)
            THEN scan' = [scan EXCEPT !.pc = "done", !.sprintNum = scan.sprintNum + 1]
            ELSE scan' = [scan EXCEPT !.sprintNum = scan.sprintNum + 1]
    /\ UNCHANGED <<sprintConfig, call, items, settings>>

ScanReturn ==
    /\ scan.pc = "done"
    /\ scan' = NoScan
    /\ UNCHANGED <<sprintConfig, call, items, settings>>

ScanNext ==
    \/ ScanStart
    \/ ScanStep
    \/ ScanReturn

\* the loop is synchronous code: once entered it keeps taking iterations
ScanSpec == ScanInit /\ [][ScanNext]_vars /\ WF_vars(ScanStep)

----------------------------------------------------------------------------
(* The store's items *)

\* an optional number that is set: startSprint, endSprint, poolItemNumber
Some(n) == <<n>>

\* every id held by an item or a subtask of the list
UsedIds(its) ==
    {its[k].id : k \in 1 .. Len(its)}
        \cup UNION {{its[k].subtasks[j].id : j \in 1 .. Len(its[k].subtasks)} :
                        k \in 1 .. Len(its)}

\* uuidv4(): an id nothing in the store carries; the least such number
FreshId(used) ==
    CHOOSE i \in 1 .. (Cardinality(used) + 1) :
        i \notin used /\ \A j \in 1 .. (i - 1) : j \in used

RECURSIVE FreshIds(_, _)
FreshIds(used, n) ==
    IF n = 0 THEN <<>>
    ELSE LET i == FreshId(used) IN <<i>> \o FreshIds(used \cup {i}, n - 1)

\* the value of a key of a Partial<RoadmapItem>, undefined when the key is absent
Field(updates, key) == IF key \in DOMAIN updates THEN updates[key] ELSE Undefined

\* updateItem's subtasks for the item: recalculated for a sprint-based item whose
\* sprints change, generated afresh for a date-based item whose dates change,
\* left as they are otherwise
UpdatedSubtasks(item, updates, config, ids) ==
    LET isSprintBased == item.startSprint # Undefined
    IN  IF /\ isSprintBased
           /\ (Field(updates, "startSprint") # Undefined
               \/ Field(updates, "endSprint") # Undefined)
        THEN LET newStartSprint == IF Field(updates, "startSprint") # Undefined
                                   THEN updates["startSprint"] ELSE item.startSprint
                 newEndSprint   == IF Field(updates, "endSprint") # Undefined
                                   THEN updates["endSprint"] ELSE item.endSprint
                 sprintsChanged == \/ newStartSprint # item.startSprint
                                   \/ newEndSprint # item.endSprint
             IN  IF sprintsChanged
                 THEN recalculateSubtasks(item.subtasks, newStartSprint[1],
                                          newEndSprint[1], config, ids)
                 ELSE item.subtasks
        ELSE IF /\ ~isSprintBased
                /\ (Field(updates, "startDate") # Undefined
                    \/ Field(updates, "endDate") # Undefined)
        THEN LET newStartDate == IF Field(updates, "startDate") # Undefined
                                 THEN updates["startDate"] ELSE item.startDate
                 newEndDate   == IF Field(updates, "endDate") # Undefined
                                 THEN updates["endDate"] ELSE item.endDate
                 datesChanged == \/ newStartDate # item.startDate
                                 \/ newEndDate # item.endDate
             IN  IF datesChanged
                 THEN generateSubtasksFromDates(newStartDate, newEndDate, ids)
                 ELSE item.subtasks
        ELSE item.subtasks

\* updateItem(id, updates) on the list its: { ...i, ...updates, subtasks: newSubtasks }
UpdateItem(its, config, id, updates) ==
    IF \A k \in 1 .. Len(its) : its[k].id # id
    THEN its
    ELSE LET item == its[CHOOSE k \in 1 .. Len(its) :
                            its[k].id = id /\ \A h \in 1 .. (k - 1) : its[h].id # id]
             newSubtasks == UpdatedSubtasks(item, updates, config,
                                            FreshIds(UsedIds(its), Len(SUBTASK_ORDER)))
         IN  [k \in 1 .. Len(its) |->
                IF its[k].id = id
                THEN [f \in DOMAIN its[k] |->
                        IF f = "subtasks" THEN newSubtasks
                        ELSE IF f \in DOMAIN updates THEN updates[f]
                        ELSE its[k][f]]
                ELSE its[k]]

\* a slip: the override is written to every subtask of the item
SetOverride_WholeItem(its, itemId, subtaskId, startDate, endDate) ==
    [k \in 1 .. Len(its) |->
        IF its[k].id = itemId
        THEN [its[k] EXCEPT !.subtasks =
                [j \in 1 .. Len(its[k].subtasks) |->
                    [its[k].subtasks[j] EXCEPT !.overrideStartDate = startDate,
                                               !.overrideEndDate = endDate]]]
        ELSE its[k]]

\* updateSubtaskOverride(itemId, subtaskId, startDate, endDate) on the list its
SetOverride(its, itemId, subtaskId, startDate, endDate) ==
    [k \in 1 .. Len(its) |->
        IF its[k].id = itemId
        THEN [its[k] EXCEPT !.subtasks =
                [j \in 1 .. Len(its[k].subtasks) |->
                    IF its[k].subtasks[j].id = subtaskId
                    THEN [its[k].subtasks[j] EXCEPT !.overrideStartDate = startDate,
                                                    !.overrideEndDate = endDate]
                    ELSE its[k].subtasks[j]]]
        ELSE its[k]]

\* the values the forms, the pool dialog and the timeline hand to the store
StoreDateChoices == {<<2026, 1, 1>>, <<2026, 1, 14>>, <<2026, 1, 28>>}
StoreOverrideChoices == {<<<<2026, 1, 6>>, <<2026, 1, 8>>>>}
PoolDurationChoices == {1, 2}
PoolNumberChoices == {1}
StoreWorkingDaysChoices ==
    {MaxWorkingDaysPerSprint, DEFAULT_CONFIG.workingDaysPerSprint}
\* the forms refuse an end before the start, and a bar's end is not before its start
StoreSprintRanges(config) ==
    {r \in RecalcSprints(config) \X RecalcSprints(config) : r[1] <= r[2]}
StoreDateRanges ==
    {r \in StoreDateChoices \X StoreDateChoices : parseISO(r[1]) <= parseISO(r[2])}
UpdateChoices(config) ==
    {[startSprint |-> Some(r[1]), endSprint |-> Some(r[2])] :
        r \in StoreSprintRanges(config)}
    \cup {[startDate |-> r[1], endDate |-> r[2]] : r \in StoreDateRanges}

\* The list is explored one item at a time: every action below appends an item,
\* removes one, or maps over the list changing the one item named and leaving
\* the others as they are.
StoreHoldsItem == items # <<>>

addItemBySprint ==
    /\ ~StoreHoldsItem
    /\ \E r \in StoreSprintRanges(sprintConfig) :
         LET startSprint == r[1]
             endSprint == r[2]
             ids == FreshIds(UsedIds(items), 1 + Len(SUBTASK_ORDER))
         IN  items' = Append(items,
                 [id |-> ids[1],
                  startSprint |-> Some(startSprint), endSprint |-> Some(endSprint),
                  startDate |-> Undefined, endDate |-> Undefined,
                  subtasks |-> generateSubtasks(startSprint, endSprint,
                                                sprintConfig, Tail(ids)),
                  poolItemNumber |-> Undefined])
    /\ UNCHANGED <<sprintConfig, call, scan, settings>>

addItemByDate ==
    /\ ~StoreHoldsItem
    /\ \E r \in StoreDateRanges :
         LET startDate == r[1]
             endDate == r[2]
             ids == FreshIds(UsedIds(items), 1 + Len(SUBTASK_ORDER))
         IN  items' = Append(items,
                 [id |-> ids[1],
                  startSprint |-> Undefined, endSprint |-> Undefined,
                  startDate |-> startDate, endDate |-> endDate,
                  subtasks |-> generateSubtasksFromDates(startDate, endDate, Tail(ids)),
                  poolItemNumber |-> Undefined])
    /\ UNCHANGED <<sprintConfig, call, scan, settings>>

addFromPool ==
    /\ ~StoreHoldsItem
    /\ \E startSprint \in RecalcSprints(sprintConfig),
          durationSprints \in PoolDurationChoices,
          poolItemNumber \in PoolNumberChoices :
         LET endSprint == startSprint + durationSprints - 1
             ids == FreshIds(UsedIds(items), 1 + Len(SUBTASK_ORDER))
         IN  items' = Append(items,
                 [id |-> ids[1],
                  startSprint |-> Some(startSprint), endSprint |-> Some(endSprint),
                  startDate |-> Undefined, endDate |-> Undefined,
                  subtasks |-> generateSubtasks(startSprint, endSprint,
                                                sprintConfig, Tail(ids)),
                  poolItemNumber |-> Some(poolItemNumber)])
    /\ UNCHANGED <<sprintConfig, call, scan, settings>>

\* updateItem(id, updates) from an edit form; id 0 is the id of no item
updateItem ==
    /\ \E id \in {items[k].id : k \in 1 .. Len(items)} \cup {0},
          updates \in UpdateChoices(sprintConfig) :
         items' = UpdateItem(items, sprintConfig, id, updates)
    /\ UNCHANGED <<sprintConfig, call, scan, settings>>

\* handleItemMove for a parent bar dragged or resized to newStart..newEnd
handleItemMoveParentBar ==
    /\ \E k \in 1 .. Len(items), r \in StoreDateRanges :
         items' = UpdateItem(items, sprintConfig, items[k].id,
                             [startDate |-> r[1], endDate |-> r[2],
                              startSprint |-> Undefined, endSprint |-> Undefined])
    /\ UNCHANGED <<sprintConfig, call, scan, settings>>

deleteItem ==
    /\ \E k \in 1 .. Len(items) :
         items' = SelectSeq(items, LAMBDA i : i.id # items[k].id)
    /\ UNCHANGED <<sprintConfig, call, scan, settings>>

updateSubtaskOverride ==
    /\ \E k \in 1 .. Len(items), j \in 1 .. Len(SUBTASK_ORDER),
          dates \in StoreOverrideChoices :
         items' = SetOverride(items, items[k].id, items[k].subtasks[j].id,
                              dates[1], dates[2])
    /\ UNCHANGED <<sprintConfig, call, scan, settings>>

resetSubtaskOverride ==
    /\ \E k \in 1 .. Len(items), j \in 1 .. Len(SUBTASK_ORDER) :
         items' = SetOverride(items, items[k].id, items[k].subtasks[j].id,
                              Undefined, Undefined)
    /\ UNCHANGED <<sprintConfig, call, scan, settings>>

\* the settings panel's working-days field: updateSprintConfig({ workingDaysPerSprint })
setWorkingDaysPerSprint ==
    /\ \E v \in StoreWorkingDaysChoices :
         sprintConfig' = [sprintConfig EXCEPT !.workingDaysPerSprint = v]
    /\ UNCHANGED <<call, scan, items, settings>>

\* reorderItems and sortItemsByStartDate, and the lists of three items they are
\* explored on
\* the ids the item list may hand to reorderItems: up to this many, repeated ids
\* and the id of no item (0) included
MaxOrderedIds == 3

\* the lists three additions leave: each item of sprint 71, of sprint 72, or of
\* 2026-01-08 .. 2026-01-14
ThreeItemLists ==
    LET first == DEFAULT_CONFIG.firstSprintNumber
        sprintItem(id, s, ids) ==
            [id |-> id, startSprint |-> Some(s), endSprint |-> Some(s),
             startDate |-> Undefined, endDate |-> Undefined,
             subtasks |-> generateSubtasks(s, s, DEFAULT_CONFIG, ids),
             poolItemNumber |-> Undefined]
        dateItem(id, ids) ==
            [id |-> id, startSprint |-> Undefined, endSprint |-> Undefined,
             startDate |-> <<2026, 1, 8>>, endDate |-> <<2026, 1, 14>>,
             subtasks |-> generateSubtasksFromDates(<<2026, 1, 8>>, <<2026, 1, 14>>, ids),
             poolItemNumber |-> Undefined]
        choices(id, ids) == {sprintItem(id, first, ids), sprintItem(id, first + 1, ids),
                             dateItem(id, ids)}
    IN  {<<a, b, c>> : a \in choices(1, <<2, 3, 4>>), b \in choices(5, <<6, 7, 8>>),
                       c \in choices(9, <<10, 11, 12>>)}

ListInit ==
    /\ sprintConfig = DEFAULT_CONFIG
    /\ call = NoCall
    /\ scan = NoScan
    /\ items \in ThreeItemLists
    /\ settings = DefaultSettings

\* orderedIds.forEach: the item of each id still in the map is pushed and its id
\* deleted from the map; itemMap holds the ids not yet placed
RECURSIVE PlaceInOrder(_, _, _, _, _)
PlaceInOrder(its, orderedIds, i, itemMap, reordered) ==
    IF i > Len(orderedIds)
    THEN [reordered |-> reordered, itemMap |-> itemMap]
    ELSE LET id == orderedIds[i]
         IN  IF id \in itemMap
             THEN PlaceInOrder(its, orderedIds, i + 1, itemMap \ {id},
                               Append(reordered,
                                      its[CHOOSE k \in 1 .. Len(its) : its[k].id = id]))
             ELSE PlaceInOrder(its, orderedIds, i + 1, itemMap, reordered)

\* a slip: a placed id is not deleted from the map
Reordered_NoDelete(its, orderedIds) ==
    LET ids == {its[k].id : k \in 1 .. Len(its)}
        named == SelectSeq(orderedIds, LAMBDA id : id \in ids)
        placed == [p \in 1 .. Len(named) |->
                      its[CHOOSE k \in 1 .. Len(its) : its[k].id = named[p]]]
    IN  placed \o SelectSeq(its, LAMBDA item :
                      \A p \in 1 .. Len(named) : named[p] # item.id)

\* reorderItems(orderedIds) on the list its: the placed items, then the items
\* left in the map, in the order the map was filled
Reordered(its, orderedIds) ==
    LET placed == PlaceInOrder(its, orderedIds, 1,
                               {its[k].id : k \in 1 .. Len(its)}, <<>>)
    IN  placed.reordered \o SelectSeq(its, LAMBDA item : item.id \in placed.itemMap)

\* the sequences of at most n ids of S
RECURSIVE IdSeqs(_, _)
IdSeqs(S, n) ==
    IF n = 0 THEN {<<>>}
    ELSE LET shorter == IdSeqs(S, n - 1)
         IN  shorter \cup {Append(seq, id) : seq \in shorter, id \in S}

reorderItems ==
    /\ \E orderedIds \in IdSeqs({items[k].id : k \in 1 .. Len(items)} \cup {0},
                                MaxOrderedIds) :
         items' = Reordered(items, orderedIds)
    /\ UNCHANGED <<sprintConfig, call, scan, settings>>

\* getStartMs's loop: the date moves on a day at a time until the working days
\* counted, by the configured weekend days, reach the target
RECURSIVE CountForward(_, _, _, _)
CountForward(startDate, workingDaysCounted, targetWorkingDays, config) ==
    IF workingDaysCounted < targetWorkingDays
    THEN LET next == startDate + 1
         IN  CountForward(next,
                          IF getDay(next) \notin config.weekendDays
                          THEN workingDaysCounted + 1 ELSE workingDaysCounted,
                          targetWorkingDays, config)
    ELSE startDate

\* a day number above every date, for Infinity
InfinityDay == parseISO(<<9999, 12, 31>>)

\* getStartMs(item), in days
getStartMs(item, config) ==
    IF item.startSprint # Undefined
    THEN LET sprintOffset == item.startSprint[1] - config.firstSprintNumber
         IN  CountForward(NewDate(config.firstSprintStartDate), 0,
                          sprintOffset * config.workingDaysPerSprint, config)
    ELSE IF item.startDate # Undefined
    THEN NewDate(item.startDate)
    ELSE InfinityDay

\* [...items].sort(by getStartMs): the sort is stable, an item goes behind the
\* items that are not later than it
RECURSIVE SortByStart(_, _)
SortByStart(its, config) ==
    IF its = <<>> THEN <<>>
    ELSE LET last == its[Len(its)]
             front == SortByStart(SubSeq(its, 1, Len(its) - 1), config)
             notLater == {k \in 1 .. Len(front) :
                            getStartMs(front[k], config) <= getStartMs(last, config)}
             at == IF notLater = {} THEN 0
                   ELSE CHOOSE k \in notLater : \A h \in notLater : h <= k
         IN  SubSeq(front, 1, at) \o <<last>> \o SubSeq(front, at + 1, Len(front))

sortItemsByStartDate ==
    /\ items' = SortByStart(items, sprintConfig)
    /\ UNCHANGED <<sprintConfig, call, scan, settings>>

StoreNext ==
    \/ addItemBySprint
    \/ addItemByDate
    \/ addFromPool
    \/ updateItem
    \/ handleItemMoveParentBar
    \/ deleteItem
    \/ updateSubtaskOverride
    \/ resetSubtaskOverride
    \/ reorderItems
    \/ sortItemsByStartDate
    \/ setWorkingDaysPerSprint

StoreSpec == Init /\ [][StoreNext]_vars

----------------------------------------------------------------------------
(* Overrides in a list of two items *)

\* the lists two additions leave: a first item of one sprint or one day, then a
\* second of one or two sprints or of two weeks
TwoItemLists ==
    LET first == DEFAULT_CONFIG.firstSprintNumber
        sprintItem(id, s, e, ids) ==
            [id |-> id, startSprint |-> Some(s), endSprint |-> Some(e),
             startDate |-> Undefined, endDate |-> Undefined,
             subtasks |-> generateSubtasks(s, e, DEFAULT_CONFIG, ids),
             poolItemNumber |-> Undefined]
        dateItem(id, s, e, ids) ==
            [id |-> id, startSprint |-> Undefined, endSprint |-> Undefined,
             startDate |-> s, endDate |-> e,
             subtasks |-> generateSubtasksFromDates(s, e, ids),
             poolItemNumber |-> Undefined]
    IN  {<<a, b>> :
            a \in {sprintItem(1, first, first, <<2, 3, 4>>),
                    dateItem(1, <<2026, 1, 1>>, <<2026, 1, 1>>, <<2, 3, 4>>)},
            b \in {sprintItem(5, first, first + 1, <<6, 7, 8>>),
                    dateItem(5, <<2026, 1, 1>>, <<2026, 1, 14>>, <<6, 7, 8>>)}}

OverrideInit ==
    /\ sprintConfig = DEFAULT_CONFIG
    /\ call = NoCall
    /\ scan = NoScan
    /\ items \in TwoItemLists
    /\ settings = DefaultSettings

OverrideNext ==
    \/ updateSubtaskOverride
    \/ resetSubtaskOverride

OverrideSpec == OverrideInit /\ [][OverrideNext]_vars

----------------------------------------------------------------------------
(* The item form, the item list and the timeline over the store *)

\* where the timeline drops a subtask bar: newStart .. newEnd
SubtaskMoveRanges == {<<<<2026, 1, 6>>, <<2026, 1, 20>>>>}

\* the settings panel's Sprints / Dates toggle
setTimingUnit ==
    /\ \E unit \in {"sprints", "dates"} :
         settings' = [settings EXCEPT !.timingUnit = unit]
    /\ UNCHANGED <<sprintConfig, call, scan, items>>

\* the timeline's switch that shows the subtask bars
setShowSprintActivities ==
    /\ \E show \in BOOLEAN :
         settings' = [settings EXCEPT !.showSprintActivities = show]
    /\ UNCHANGED <<sprintConfig, call, scan, items>>

\* ItemForm's handleSubmit; editing = 0 is the form that adds an item, another
\* value the form opened on items[editing]. The fields the form shows take what
\* the user picks, the hidden ones keep the value the form was opened with.
handleSubmit ==
    /\ \E editing \in 0 .. Len(items) :
         LET first == sprintConfig.firstSprintNumber
             timingUnit == settings.timingUnit
             isEditingSprintBased ==
                 editing # 0 /\ items[editing].startSprint # Undefined
             showSprintMode == IF editing # 0 THEN isEditingSprintBased
                               ELSE timingUnit = "sprints"
             defaultStartDate == toISODateString(sprintStartDate(first, sprintConfig))
             defaultEndDate == toISODateString(sprintEndDate(first, sprintConfig))
             openedStartSprint ==
                 IF editing # 0 /\ items[editing].startSprint # Undefined
                 THEN items[editing].startSprint[1] ELSE first
             openedEndSprint ==
                 IF editing # 0 /\ items[editing].endSprint # Undefined
                 THEN items[editing].endSprint[1] ELSE first
             openedStartDate ==
                 IF editing # 0 /\ items[editing].startDate # Undefined
                 THEN items[editing].startDate ELSE defaultStartDate
             openedEndDate ==
                 IF editing # 0 /\ items[editing].endDate # Undefined
                 THEN items[editing].endDate ELSE defaultEndDate
             sprintFields == IF showSprintMode
                             THEN RecalcSprints(sprintConfig) \X RecalcSprints(sprintConfig)
                             ELSE {<<openedStartSprint, openedEndSprint>>}
             dateFields == IF showSprintMode
                           THEN {<<openedStartDate, openedEndDate>>}
                           ELSE StoreDateChoices \X StoreDateChoices
             ids == FreshIds(UsedIds(items), 1 + Len(SUBTASK_ORDER))
         IN  \E sf \in sprintFields, df \in dateFields :
               LET startSprint == sf[1]
                   endSprint == sf[2]
                   startDate == df[1]
                   endDate == df[2]
                   valid == IF timingUnit = "sprints"
                            THEN ~(endSprint < startSprint)
                            ELSE ~(NewDate(endDate) < NewDate(startDate))
                   updates == IF timingUnit = "sprints"
                              THEN [startSprint |-> Some(startSprint),
                                    endSprint |-> Some(endSprint)]
                              ELSE [startDate |-> startDate, endDate |-> endDate]
               IN  /\ valid
                   /\ IF editing # 0
                      THEN items' = UpdateItem(items, sprintConfig,
                                               items[editing].id, updates)
                      ELSE /\ ~StoreHoldsItem
                           /\ items' = Append(items,
                                [id |-> ids[1],
                                 startSprint |-> Field(updates, "startSprint"),
                                 endSprint |-> Field(updates, "endSprint"),
                                 startDate |-> Field(updates, "startDate"),
                                 endDate |-> Field(updates, "endDate"),
                                 subtasks |->
                                     IF timingUnit = "sprints"
                                     THEN generateSubtasks(startSprint, endSprint,
                                                           sprintConfig, Tail(ids))
                                     ELSE generateSubtasksFromDates(startDate, endDate,
                                                                    Tail(ids)),
                                 poolItemNumber |-> Undefined])
    /\ UNCHANGED <<sprintConfig, call, scan, settings>>

\* the item list's inline range editor: handleSave, by the item's representation
handleSave ==
    /\ \E k \in 1 .. Len(items) :
         LET item == items[k]
             isSprintBased == item.startSprint # Undefined
         IN  \E startSprint \in RecalcSprints(sprintConfig),
                endSprint \in RecalcSprints(sprintConfig),
                startDate \in StoreDateChoices, endDate \in StoreDateChoices :
               LET valid == IF isSprintBased
                            THEN ~(endSprint < startSprint)
                            ELSE ~(NewDate(endDate) < NewDate(startDate))
                   updates == IF isSprintBased
                              THEN [startSprint |-> Some(startSprint),
                                    endSprint |-> Some(endSprint)]
                              ELSE [startDate |-> startDate, endDate |-> endDate]
               IN  /\ valid
                   /\ items' = UpdateItem(items, sprintConfig, item.id, updates)
    /\ UNCHANGED <<sprintConfig, call, scan, settings>>

\* the parent's bounds as the timeline reads them: the displayed sprints' dates
\* for an item with both sprints, the parsed dates for one with both dates
ParentBounds(item, config) ==
    IF item.startSprint # Undefined /\ item.endSprint # Undefined
    THEN [start |-> getSprintInfo(item.startSprint[1], config).startDate,
          end   |-> getSprintInfo(item.endSprint[1], config).endDate]
    ELSE [start |-> fromISODateString(item.startDate),
          end   |-> fromISODateString(item.endDate)]

\* handleItemMove for the bar of subtask j of items[k] dropped on newStart .. newEnd
\* (day numbers): the parent is widened first when the bar leaves it, then the
\* override is stored under the subtask id the bar was drawn with
MoveSubtaskBar(k, j, newStart, newEnd) ==
    /\ settings.showSprintActivities
    /\ k \in 1 .. Len(items)
    /\ j \in 1 .. Len(items[k].subtasks)
    /\ \/ items[k].startSprint # Undefined /\ items[k].endSprint # Undefined
       \/ items[k].startDate # Undefined /\ items[k].endDate # Undefined
    /\ LET roadmapItem == items[k]
           subtaskId == roadmapItem.subtasks[j].id
           parent == ParentBounds(roadmapItem, sprintConfig)
           newParentStart == IF newStart < parent.start THEN newStart ELSE parent.start
           newParentEnd == IF newEnd > parent.end THEN newEnd ELSE parent.end
           needsParentUpdate == newStart < parent.start \/ newEnd > parent.end
           widened == IF needsParentUpdate
                      THEN UpdateItem(items, sprintConfig, roadmapItem.id,
                               [startDate |-> toISODateString(newParentStart),
                                endDate |-> toISODateString(newParentEnd),
                                startSprint |-> Undefined, endSprint |-> Undefined])
                      ELSE items
       IN  items' = SetOverride(widened, roadmapItem.id, subtaskId,
                                toISODateString(newStart), toISODateString(newEnd))
    /\ UNCHANGED <<sprintConfig, call, scan, settings>>

handleItemMoveSubtaskBar ==
    \E k \in 1 .. Len(items), j \in 1 .. Len(SUBTASK_ORDER), r \in SubtaskMoveRanges :
        MoveSubtaskBar(k, j, fromISODateString(r[1]), fromISODateString(r[2]))

\* the item form and the item list
FormNext ==
    \/ setTimingUnit
    \/ handleSubmit
    \/ handleSave
    \/ deleteItem

FormSpec == Init /\ [][FormNext]_vars

\* the timeline over items added through the store
TimelineNext ==
    \/ addItemBySprint
    \/ addItemByDate
    \/ setShowSprintActivities
    \/ handleItemMoveParentBar
    \/ handleItemMoveSubtaskBar
    \/ deleteItem

TimelineSpec == Init /\ [][TimelineNext]_vars

----------------------------------------------------------------------------
(* The order of the item list *)

ListNext ==
    \/ reorderItems
    \/ sortItemsByStartDate
    \/ deleteItem

ListSpec == ListInit /\ [][ListNext]_vars

----------------------------------------------------------------------------
(* Export and import of the store as JSON *)

\* A JSON text is a text JSON.parse throws on, or the text of a value; a value is
\* null or an object. An object is the record of the keys it holds. A key that is
\* absent and a key that holds undefined read alike (both give undefined), so
\* the store's objects are records over all their keys with Undefined for the
\* absent ones, and JSON.stringify leaves a key out when it holds undefined.
NotJSON == [json |-> FALSE]
JSONText(value) == [json |-> TRUE, value |-> value]
JSONNull == [type |-> "null"]
JSONObject(fields) == [type |-> "object", fields |-> fields]
JSONArray(elements) == [array |-> TRUE, elements |-> elements]
JSONNotArray == [array |-> FALSE]

\* the optional keys of RoadmapItem and Subtask
ItemOptionalKeys == {"startSprint", "endSprint", "startDate", "endDate", "poolItemNumber"}
SubtaskOptionalKeys == {"overrideStartDate", "overrideEndDate"}

\* JSON.stringify of an object: the keys holding undefined are left out
StringifyObject(object, optionalKeys) ==
    [f \in {g \in DOMAIN object : g \in optionalKeys => object[g] # Undefined}
        |-> object[f]]

StringifyItem(item) ==
    LET subtasks == [j \in 1 .. Len(item.subtasks) |->
                        StringifyObject(item.subtasks[j], SubtaskOptionalKeys)]
    IN  StringifyObject([item EXCEPT !.subtasks = subtasks], ItemOptionalKeys)

\* reading a parsed object through its keys: an absent key reads as undefined
ReadObject(object, keys) == [f \in keys |-> Field(object, f)]

ReadItem(object) ==
    LET item == ReadObject(object, {"id", "subtasks"} \cup ItemOptionalKeys)
    IN  [item EXCEPT !.subtasks =
            [j \in 1 .. Len(item.subtasks) |->
                ReadObject(item.subtasks[j],
                           {"id", "type", "autoStartDate", "autoEndDate"}
                               \cup SubtaskOptionalKeys)]]

\* exportData(): JSON.stringify of the exported object ('version' and
\* 'exportedAt', which importData does not read, are left out)
exportData ==
    JSONText(JSONObject(
        [sprintConfig |-> sprintConfig,
         items |-> JSONArray([k \in 1 .. Len(items) |-> StringifyItem(items[k])]),
         releaseMarkers |-> settings.releaseMarkers,
         codeFreezeMarkers |-> settings.codeFreezeMarkers,
         displaySprintCount |-> settings.displaySprintCount,
         timingUnit |-> settings.timingUnit,
         poolItems |-> settings.poolItems,
         showSprintActivities |-> settings.showSprintActivities,
         selectedCategories |-> settings.selectedCategories,
         showExternalOnly |-> settings.showExternalOnly,
         snapMode |-> settings.snapMode]))

\* data.key || fallback for a number, a string and an array, data.key ?? fallback
OrNumber(data, key, fallback) ==
    IF key \notin DOMAIN data THEN fallback
    ELSE IF data[key] = 0 THEN fallback ELSE data[key]
OrString(data, key, fallback) ==
    IF key \notin DOMAIN data THEN fallback
    ELSE IF data[key] = "" THEN fallback ELSE data[key]
OrArray(data, key, fallback) ==
    IF key \notin DOMAIN data THEN fallback ELSE data[key]
Coalesce(data, key, fallback) ==
    IF key \notin DOMAIN data THEN fallback ELSE data[key]

\* a slip: a file with no items in its array is turned down
ImportAccepts_NonEmptyItems(jsonString) ==
    /\ jsonString.json
    /\ jsonString.value.type = "object"
    /\ "sprintConfig" \in DOMAIN jsonString.value.fields
    /\ "items" \in DOMAIN jsonString.value.fields
    /\ jsonString.value.fields.items.array
    /\ jsonString.value.fields.items.elements # <<>>

\* whether importData(jsonString) gets past JSON.parse, the property reads and
\* the structure check
ImportAccepts(jsonString) ==
    /\ jsonString.json
    /\ jsonString.value.type = "object"
    /\ "sprintConfig" \in DOMAIN jsonString.value.fields
    /\ "items" \in DOMAIN jsonString.value.fields
    /\ jsonString.value.fields.items.array

\* a slip: the timing unit is not read from the file
ImportedSettings_DefaultTimingUnit(data) ==
    [releaseMarkers |-> OrArray(data, "releaseMarkers", <<>>),
     codeFreezeMarkers |-> OrArray(data, "codeFreezeMarkers", <<>>),
     displaySprintCount |-> OrNumber(data, "displaySprintCount", DEFAULT_SPRINT_COUNT),
     timingUnit |-> DEFAULT_TIMING_UNIT,
     poolItems |-> OrArray(data, "poolItems", DEFAULT_POOL_ITEMS),
     showSprintActivities |-> Coalesce(data, "showSprintActivities", FALSE),
     selectedCategories |-> OrArray(data, "selectedCategories", <<>>),
     showExternalOnly |-> Coalesce(data, "showExternalOnly", FALSE),
     snapMode |-> OrString(data, "snapMode", "day")]

\* the fields importData sets besides sprintConfig and items
ImportedSettings(data) ==
    [releaseMarkers |-> OrArray(data, "releaseMarkers", <<>>),
     codeFreezeMarkers |-> OrArray(data, "codeFreezeMarkers", <<>>),
     displaySprintCount |-> OrNumber(data, "displaySprintCount", DEFAULT_SPRINT_COUNT),
     timingUnit |-> OrString(data, "timingUnit", DEFAULT_TIMING_UNIT),
     poolItems |-> OrArray(data, "poolItems", DEFAULT_POOL_ITEMS),
     showSprintActivities |-> Coalesce(data, "showSprintActivities", FALSE),
     selectedCategories |-> OrArray(data, "selectedCategories", <<>>),
     showExternalOnly |-> Coalesce(data, "showExternalOnly", FALSE),
     snapMode |-> OrString(data, "snapMode", "day")]

\* importData(jsonString): false, with nothing set, when JSON.parse or a property
\* read throws or the structure check fails; the call record keeps the result
importData(jsonString) ==
    IF ImportAccepts(jsonString)
    THEN LET data == jsonString.value.fields
         IN  /\ sprintConfig' = data.sprintConfig
             /\ items' = [k \in 1 .. Len(data.items.elements) |->
                             ReadItem(data.items.elements[k])]
             /\ settings' = ImportedSettings(data)
             /\ call' = [fn |-> "importData", args |-> <<>>, result |-> TRUE]
             /\ UNCHANGED scan
    ELSE /\ call' = [fn |-> "importData", args |-> <<>>, result |-> FALSE]
         /\ UNCHANGED <<sprintConfig, scan, items, settings>>

\* the files the user may pick besides an export of the store as it is
ImportFiles ==
    LET config == [DEFAULT_CONFIG EXCEPT !.workingDaysPerSprint = MaxWorkingDaysPerSprint]
        dateItem == [id |-> 1, startDate |-> <<2026, 1, 1>>, endDate |-> <<2026, 1, 14>>,
                     subtasks |-> [j \in 1 .. Len(SUBTASK_ORDER) |->
                         StringifyObject(
                             generateSubtasksFromDates(<<2026, 1, 1>>, <<2026, 1, 14>>,
                                                       <<2, 3, 4>>)[j],
                             SubtaskOptionalKeys)]]
    IN  {NotJSON,
         JSONText(JSONNull),
         JSONText(JSONObject([items |-> JSONArray(<<>>)])),
         JSONText(JSONObject([sprintConfig |-> config])),
         JSONText(JSONObject([sprintConfig |-> config, items |-> JSONNotArray])),
         JSONText(JSONObject([sprintConfig |-> config, items |-> JSONArray(<<>>)])),
         JSONText(JSONObject([sprintConfig |-> config,
                              items |-> JSONArray(<<dateItem>>),
                              displaySprintCount |-> 0,
                              timingUnit |-> "dates",
                              showSprintActivities |-> TRUE,
                              snapMode |-> "sprint"]))}

\* the settings panel's Import JSON: handleFileChange hands the file's text to importData
handleFileChange ==
    \E content \in ImportFiles \cup {exportData} : importData(content)

\* the settings panel's Show Sprints select
SprintCountOptions == {6, 12, 18, 24}

setDisplaySprintCount ==
    /\ \E count \in SprintCountOptions :
         settings' = [settings EXCEPT !.displaySprintCount = count]
    /\ UNCHANGED <<sprintConfig, call, scan, items>>

clearAllData ==
    /\ sprintConfig' = DEFAULT_CONFIG
    /\ items' = <<>>
    /\ settings' = DefaultSettings
    /\ UNCHANGED <<call, scan>>

DataNext ==
    \/ setDisplaySprintCount
    \/ setTimingUnit
    \/ setShowSprintActivities
    \/ addItemBySprint
    \/ handleItemMoveParentBar
    \/ deleteItem
    \/ handleFileChange
    \/ clearAllData

DataSpec == Init /\ [][DataNext]_vars

----------------------------------------------------------------------------
(* Properties of allocateWorkingDays *)

\* C1: for every totalWorkingDays >= 0, allocateWorkingDays returns three
\* non-negative integers REQ_UX, DEV, QA whose sum is exactly totalWorkingDays.
AllocationSumsToTotal ==
    call.fn = "allocateWorkingDays" =>
        LET a == call.result
        IN  /\ a.REQ_UX \in Nat /\ a.DEV \in Nat /\ a.QA \in Nat
            /\ a.REQ_UX + a.DEV + a.QA = call.args[1]

AllocationSumsToTotal_Witness ==
    /\ call.fn = "allocateWorkingDays"
    /\ call.args[1] = 13
    /\ call.result.REQ_UX + call.result.DEV + call.result.QA = 13

\* C2: for every totalWorkingDays >= 3, each of the three phases gets at least
\* one working day.
AllocationMinimumFloor ==
    (call.fn = "allocateWorkingDays" /\ call.args[1] >= 3) =>
        /\ call.result.REQ_UX >= 1
        /\ call.result.DEV >= 1
        /\ call.result.QA >= 1

AllocationMinimumFloor_Witness ==
    /\ call.fn = "allocateWorkingDays"
    /\ call.args[1] = 3
    /\ call.result = [REQ_UX |-> 1, DEV |-> 1, QA |-> 1]

\* C3: allocateWorkingDays agrees with the reference table: 0 -> {0,0,0},
\* 1 -> {0,1,0}, 2 -> {0,1,1}, and for total >= 3 REQ_UX = QA = max(1, the integer
\* nearest to total / 5) and DEV = total - REQ_UX - QA; 10 -> {2,6,2}.
AllocationReferenceTable ==
    call.fn = "allocateWorkingDays" =>
        LET t == call.args[1]
            a == call.result
            \* round-half-up of 0.20 * t: total / 5 is never half way between integers
            nearest == CHOOSE r \in 0 .. t : (5 * r - t) \in (-2) .. 2
        IN  /\ t = 0 => a = [REQ_UX |-> 0, DEV |-> 0, QA |-> 0]
            /\ t = 1 => a = [REQ_UX |-> 0, DEV |-> 1, QA |-> 0]
            /\ t = 2 => a = [REQ_UX |-> 0, DEV |-> 1, QA |-> 1]
            /\ t >= 3 => /\ a.REQ_UX = Max(1, nearest)
                         /\ a.QA = Max(1, nearest)
                         /\ a.DEV = t - a.REQ_UX - a.QA
            /\ t = 10 => a = [REQ_UX |-> 2, DEV |-> 6, QA |-> 2]

AllocationReferenceTable_Witness ==
    /\ call.fn = "allocateWorkingDays"
    /\ call.args[1] = 10
    /\ call.result = [REQ_UX |-> 2, DEV |-> 6, QA |-> 2]

----------------------------------------------------------------------------
(* Properties of the working-day calendar *)

\* C4: a date is treated as a non-working day by the calendar if and only if its
\* weekday index is a member of the configured weekendDays.
WeekendFollowsConfig ==
    call.fn = "isWeekend" =>
        (call.result <=> getDay(call.args[1]) \in sprintConfig.weekendDays)

\* C5: for n >= 0, addWorkingDays(d, n) is a working day at or after the snapped
\* start (the first working day >= d, which nextWorkingDay(d) returns), exactly n
\* working days lie after the snapped start up to and including the result, and
\* addWorkingDays(d, 0) is the snapped start itself.
AddWorkingDaysAdvancesByN ==
    /\ call.fn = "nextWorkingDay" =>
          LET d == call.args[1]
              r == call.result
          IN  r >= d /\ isWorkingDay(r) /\ \A x \in d .. (r - 1) : ~isWorkingDay(x)
    /\ (call.fn = "addWorkingDays" /\ call.args[2] >= 0) =>
          LET d == call.args[1]
              n == call.args[2]
              r == call.result
              snapped == CHOOSE x \in d .. (d + 6) :
                            isWorkingDay(x) /\ \A y \in d .. (x - 1) : ~isWorkingDay(y)
          IN  /\ isWorkingDay(r)
              /\ r >= snapped
              /\ Cardinality({x \in (snapped + 1) .. r : isWorkingDay(x)}) = n
              /\ n = 0 => r = snapped

\* a Saturday plus three working days: the Wednesday after
AddWorkingDaysAdvancesByN_Witness ==
    /\ call.fn = "addWorkingDays"
    /\ toISODateString(call.args[1]) = <<2026, 1, 3>>
    /\ call.args[2] = 3
    /\ toISODateString(call.result) = <<2026, 1, 8>>

\* C6: countWorkingDays(start, end) is the number of working days d with
\* start <= d <= end, and 0 whenever end < start; a single Saturday gives 0 and
\* 2026-01-01 .. 2026-01-14 gives 10.
CountWorkingDaysInclusive ==
    call.fn = "countWorkingDays" =>
        LET s == call.args[1]
            e == call.args[2]
        IN  /\ call.result = Cardinality({d \in s .. e : isWorkingDay(d)})
            /\ e < s => call.result = 0
            /\ (toISODateString(s) = <<2026, 1, 3>> /\ e = s) => call.result = 0
            /\ (toISODateString(s) = <<2026, 1, 1>> /\ toISODateString(e) = <<2026, 1, 14>>)
                  => call.result = 10

CountWorkingDaysInclusive_Witness ==
    /\ call.fn = "countWorkingDays"
    /\ toISODateString(call.args[1]) = <<2026, 1, 1>>
    /\ toISODateString(call.args[2]) = <<2026, 1, 14>>
    /\ call.result = 10

\* C7: for a working day start and n >= 1,
\* countWorkingDays(start, addWorkingDays(start, n - 1)) = n.
CountInvertsAdd ==
    (call.fn = "addWorkingDays" /\ isWorkingDay(call.args[1]) /\ call.args[2] >= 0) =>
        countWorkingDays(call.args[1], call.result) = call.args[2] + 1

\* a Friday start and n = 4: the range runs over the weekend to Wednesday
CountInvertsAdd_Witness ==
    /\ call.fn = "addWorkingDays"
    /\ toISODateString(call.args[1]) = <<2026, 1, 2>>
    /\ call.args[2] = 3
    /\ countWorkingDays(call.args[1], call.result) = 4
    /\ call.result - call.args[1] = 5

----------------------------------------------------------------------------
(* Properties of the sprint mapper *)

\* C8: for every sprint number N, below firstSprintNumber included, and
\* workingDaysPerSprint >= 1, sprintStartDate(N+1) is exactly the next working day
\* after sprintEndDate(N) and sprintStartDate(N) < sprintStartDate(N+1).
SprintWindowsContiguous ==
    (call.fn = "generateSprints" /\ sprintConfig.workingDaysPerSprint >= 1) =>
        \A i \in 1 .. (Len(call.result) - 1) :
            LET this == call.result[i]
                next == call.result[i + 1]
            IN  /\ isWorkingDay(next.startDate)
                /\ next.startDate > this.endDate
                /\ \A d \in (this.endDate + 1) .. (next.startDate - 1) : ~isWorkingDay(d)
                /\ this.startDate < next.startDate

\* C9: for N >= firstSprintNumber and workingDaysPerSprint >= 1, sprintStartDate(N)
\* and sprintEndDate(N) are working days, the inclusive window holds exactly
\* workingDaysPerSprint working days, the anchor sprint starts on the first working
\* day at or after firstSprintStartDate, and with the default configuration sprint
\* 71 runs 2026-01-01 .. 2026-01-14.
SprintWindowLength ==
    (call.fn = "generateSprints" /\ sprintConfig.workingDaysPerSprint >= 1) =>
        \A i \in 1 .. Len(call.result) :
            LET w == call.result[i]
                firstStart == parseISO(sprintConfig.firstSprintStartDate)
            IN  w.number >= sprintConfig.firstSprintNumber =>
                  /\ isWorkingDay(w.startDate)
                  /\ isWorkingDay(w.endDate)
                  /\ Cardinality({d \in w.startDate .. w.endDate : isWorkingDay(d)})
                        = sprintConfig.workingDaysPerSprint
                  /\ w.number = sprintConfig.firstSprintNumber =>
                        /\ w.startDate >= firstStart
                        /\ \A d \in firstStart .. (w.startDate - 1) : ~isWorkingDay(d)
                  /\ (sprintConfig = DEFAULT_CONFIG /\ w.number = 71) =>
                        /\ toISODateString(w.startDate) = <<2026, 1, 1>>
                        /\ toISODateString(w.endDate) = <<2026, 1, 14>>

SprintWindowLength_Witness ==
    /\ call.fn = "generateSprints"
    /\ sprintConfig = DEFAULT_CONFIG
    /\ call.args = <<71, 2>>
    /\ toISODateString(call.result[1].startDate) = <<2026, 1, 1>>
    /\ toISODateString(call.result[1].endDate) = <<2026, 1, 14>>
    /\ toISODateString(call.result[2].startDate) = <<2026, 1, 15>>
    /\ toISODateString(call.result[2].endDate) = <<2026, 1, 28>>

\* C10 as stated: a date before sprintStartDate(firstSprintNumber) gives
\* firstSprintNumber - 1; any other date within the scan range gives the smallest
\* sprint s >= firstSprintNumber with date <= sprintEndDate(s), whose window holds
\* the date when it is a working day.
SprintForDateBeforeSnappedStart ==
    call.fn = "getSprintForDate" =>
        LET d == call.args[1]
            r == call.result
            first == sprintConfig.firstSprintNumber
            inScanRange == \E s \in first .. (first + SCAN_LIMIT) :
                              d <= sprintEndDate(s, sprintConfig)
        IN  IF d < sprintStartDate(first, sprintConfig)
            THEN r = first - 1
            ELSE inScanRange =>
                   /\ r >= first
                   /\ d <= sprintEndDate(r, sprintConfig)
                   /\ \A s \in first .. (r - 1) : d > sprintEndDate(s, sprintConfig)
                   /\ isWorkingDay(d) => sprintStartDate(r, sprintConfig) <= d

\* C10 amended: the dates that give firstSprintNumber - 1 are those before the
\* configured firstSprintStartDate itself (not before its snapped working day).
SprintForDateBeforeConfiguredStart ==
    call.fn = "getSprintForDate" =>
        LET d == call.args[1]
            r == call.result
            first == sprintConfig.firstSprintNumber
            inScanRange == \E s \in first .. (first + SCAN_LIMIT) :
                              d <= sprintEndDate(s, sprintConfig)
        IN  IF d < parseISO(sprintConfig.firstSprintStartDate)
            THEN r = first - 1
            ELSE inScanRange =>
                   /\ r >= first
                   /\ d <= sprintEndDate(r, sprintConfig)
                   /\ \A s \in first .. (r - 1) : d > sprintEndDate(s, sprintConfig)
                   /\ isWorkingDay(d) => sprintStartDate(r, sprintConfig) <= d

\* the anchor configured on a Saturday, and that Saturday looked up: the first sprint
SprintForDateBeforeConfiguredStart_Witness ==
    /\ call.fn = "getSprintForDate"
    /\ sprintConfig.firstSprintStartDate = <<2026, 1, 3>>
    /\ call.args[1] = parseISO(<<2026, 1, 3>>)
    /\ call.args[1] < sprintStartDate(sprintConfig.firstSprintNumber, sprintConfig)
    /\ call.result = sprintConfig.firstSprintNumber

----------------------------------------------------------------------------
(* Properties of subtask generation *)

IsGenerated == call.fn \in {"generateSubtasks", "generateSubtasksFromDates"}

\* the item range a generation call is about, as day numbers
GeneratedRange ==
    IF call.fn = "generateSubtasks"
    THEN [start |-> sprintStartDate(call.args[1], sprintConfig),
          end   |-> sprintEndDate(call.args[2], sprintConfig)]
    ELSE [start |-> parseISO(call.args[1]), end |-> parseISO(call.args[2])]

\* the item's start date as the date string the item carries
GeneratedStartStr ==
    IF call.fn = "generateSubtasks"
    THEN toISODateString(sprintStartDate(call.args[1], sprintConfig))
    ELSE call.args[1]

WorkingDaysOf(lo, hi) == {d \in lo .. hi : getDay(d) \notin {0, 6}}

FirstWorkingDayFrom(d) ==
    CHOOSE w \in d .. (d + 6) :
        /\ getDay(w) \notin {0, 6}
        /\ \A v \in d .. (w - 1) : getDay(v) \in {0, 6}

GeneratedTotal ==
    Cardinality(WorkingDaysOf(GeneratedRange.start, GeneratedRange.end))

\* the days each phase is given, indexed as the subtasks are
GeneratedDays ==
    [i \in 1 .. Len(SUBTASK_ORDER) |-> allocateWorkingDays(GeneratedTotal)[SUBTASK_ORDER[i]]]

SetMax(S) == CHOOSE x \in S : \A y \in S : y <= x
SetMin(S) == CHOOSE x \in S : \A y \in S : x <= y

\* where the cursor stands when phase i is placed: the day after the end of the
\* latest earlier phase of positive length, the item's start if there is none
CursorBefore(i) ==
    LET earlier == {j \in 1 .. (i - 1) : GeneratedDays[j] > 0}
    IN  IF earlier = {} THEN GeneratedRange.start
        ELSE parseISO(call.result[SetMax(earlier)].autoEndDate) + 1

\* C12: generateSubtasks, in its sprint form and its date form, returns exactly
\* three subtasks in the order REQ_UX, DEV, QA, none with an override start or
\* end; a phase given 0 days is a placeholder whose auto start and auto end are
\* the item's start date, and it does not move the cursor: every phase of
\* positive length starts on the first working day at or after the day that
\* follows the previous positive phase (the item's start for the first).
ThreeSubtasksInOrder ==
    IsGenerated =>
        /\ Len(call.result) = 3
        /\ call.result[1].type = "REQ_UX"
        /\ call.result[2].type = "DEV"
        /\ call.result[3].type = "QA"
        /\ \A i \in 1 .. 3 :
              /\ call.result[i].overrideStartDate = Undefined
              /\ call.result[i].overrideEndDate = Undefined
              /\ GeneratedDays[i] = 0 =>
                    /\ call.result[i].autoStartDate = GeneratedStartStr
                    /\ call.result[i].autoEndDate = GeneratedStartStr
              /\ GeneratedDays[i] > 0 =>
                    parseISO(call.result[i].autoStartDate)
                        = FirstWorkingDayFrom(CursorBefore(i))

\* a two-working-day sprint item: REQ_UX is a placeholder, DEV and QA follow it
ThreeSubtasksInOrder_Witness ==
    /\ call.fn = "generateSubtasks"
    /\ GeneratedTotal = 2
    /\ GeneratedRange.start < GeneratedRange.end
    /\ call.result[1].autoEndDate = GeneratedStartStr
    /\ call.result[2].autoStartDate = GeneratedStartStr

\* C13: for an item range of at least 3 working days the subtasks are
\* contiguous: the next working day after REQ_UX's autoEndDate is DEV's
\* autoStartDate, and the next working day after DEV's autoEndDate is QA's.
SubtasksContiguous ==
    (IsGenerated /\ GeneratedTotal >= 3) =>
        \A i \in 1 .. 2 :
            FirstWorkingDayFrom(parseISO(call.result[i].autoEndDate) + 1)
                = parseISO(call.result[i + 1].autoStartDate)

\* a date range whose REQ_UX phase ends on a Friday, DEV starting on the Monday
SubtasksContiguous_Witness ==
    /\ call.fn = "generateSubtasksFromDates"
    /\ GeneratedTotal >= 3
    /\ getDay(parseISO(call.result[1].autoEndDate)) = 5
    /\ getDay(parseISO(call.result[2].autoStartDate)) = 1

SubtaskDays(i) ==
    parseISO(call.result[i].autoStartDate) .. parseISO(call.result[i].autoEndDate)

\* C14: for an item range [itemStart, itemEnd] of at least 1 working day, the
\* ranges of the phases of positive length are pairwise disjoint, lie within
\* [itemStart, itemEnd], and cover exactly its working days: the first starts on
\* the first working day >= itemStart, the last ends on the last working day <=
\* itemEnd, each covers as many working days as it was allocated. Sprint 71 of
\* the default configuration gives REQ_UX 2026-01-01..01-02, DEV 01-05..01-12,
\* QA 01-13..01-14.
SubtasksCoverWorkingDays ==
    (IsGenerated /\ GeneratedTotal >= 1) =>
        LET positive == {i \in 1 .. Len(call.result) : GeneratedDays[i] > 0}
            working  == WorkingDaysOf(GeneratedRange.start, GeneratedRange.end)
        IN  /\ \A i \in positive, j \in positive :
                  i # j => SubtaskDays(i) \cap SubtaskDays(j) = {}
            /\ \A i \in positive :
                  /\ SubtaskDays(i) # {}
                  /\ SubtaskDays(i) \subseteq GeneratedRange.start .. GeneratedRange.end
                  /\ Cardinality(SubtaskDays(i) \cap working) = GeneratedDays[i]
            /\ UNION {SubtaskDays(i) \cap working : i \in positive} = working
            /\ parseISO(call.result[SetMin(positive)].autoStartDate) = SetMin(working)
            /\ parseISO(call.result[SetMax(positive)].autoEndDate) = SetMax(working)
            /\ (/\ call.fn = "generateSubtasks"
                /\ sprintConfig = DEFAULT_CONFIG
                /\ call.args = <<71, 71>>) =>
                  /\ call.result[1].autoStartDate = <<2026, 1, 1>>
                  /\ call.result[1].autoEndDate = <<2026, 1, 2>>
                  /\ call.result[2].autoStartDate = <<2026, 1, 5>>
                  /\ call.result[2].autoEndDate = <<2026, 1, 12>>
                  /\ call.result[3].autoStartDate = <<2026, 1, 13>>
                  /\ call.result[3].autoEndDate = <<2026, 1, 14>>

\* sprint 71 of the default configuration has been split
SubtasksCoverWorkingDays_Witness ==
    /\ call.fn = "generateSubtasks"
    /\ sprintConfig = DEFAULT_CONFIG
    /\ call.args = <<71, 71>>
    /\ GeneratedTotal = 10
    /\ call.result[2].autoEndDate = <<2026, 1, 12>>

------------------------------------------------------------------\* the (type, autoStartDate, autoEndDate) of each subtask, in order
TypeAndAutoDates(subtasks) ==
    [i \in 1 .. Len(subtasks) |->
        <<subtasks[i].type, subtasks[i].autoStartDate, subtasks[i].autoEndDate>>]

\* C23: for startSprint <= endSprint, generateSubtasks(startSprint, endSprint,
\* config) yields the same sequence of (type, autoStartDate, autoEndDate) as
\* generateSubtasksFromDates on the ISO dates of sprintStartDate(startSprint) and
\* sprintEndDate(endSprint).
SprintFormMatchesDateForm ==
    (call.fn = "generateSubtasks" /\ call.args[1] <= call.args[2]) =>
        TypeAndAutoDates(call.result)
          = TypeAndAutoDates(generateSubtasksFromDates(
                toISODateString(sprintStartDate(call.args[1], sprintConfig)),
                toISODateString(sprintEndDate(call.args[2], sprintConfig)),
                LaterIds))

\* sprints 71..72 of the default configuration: 20 working days, as 4 / 12 / 4
SprintFormMatchesDateForm_Witness ==
    /\ call.fn = "generateSubtasks"
    /\ sprintConfig = DEFAULT_CONFIG
    /\ call.args = <<71, 72>>
    /\ TypeAndAutoDates(call.result)
         = <<<<"REQ_UX", <<2026, 1, 1>>, <<2026, 1, 6>>>>,
             <<"DEV", <<2026, 1, 7>>, <<2026, 1, 22>>>>,
             <<"QA", <<2026, 1, 23>>, <<2026, 1, 28>>>>>>
    /\ TypeAndAutoDates(generateSubtasksFromDates(<<2026, 1, 1>>, <<2026, 1, 28>>,
                                                  LaterIds))
         = TypeAndAutoDates(call.result)

----------
(* Properties of overrides *)

\* the calendar order of two date strings, read off year, month and day
IsoBefore(a, b) ==
    \/ a[1] < b[1]
    \/ a[1] = b[1] /\ a[2] < b[2]
    \/ a[1] = b[1] /\ a[2] = b[2] /\ a[3] < b[3]

HasOverride(st) == st.overrideStartDate # Undefined \/ st.overrideEndDate # Undefined

\* C15: validateSubtaskOverride on a subtask's effective range returns no error
\* exactly when end >= start, start >= itemStart and end <= itemEnd; otherwise
\* it returns the first failing check in the order EndBeforeStart,
\* StartBeforeItemStart, EndAfterItemEnd. An override 2026-01-20..2026-01-25 on
\* an item running 2026-01-01..2026-01-14 is rejected with EndAfterItemEnd.
ValidateFirstFailingCheck ==
    call.fn = "validateSubtaskOverride" =>
        LET st    == call.args[1]
            start == IF st.overrideStartDate # Undefined
                     THEN st.overrideStartDate ELSE st.autoStartDate
            end   == IF st.overrideEndDate # Undefined
                     THEN st.overrideEndDate ELSE st.autoEndDate
            endNotBeforeStart == ~IsoBefore(end, start)
            startInItem       == ~IsoBefore(start, call.args[2])
            endInItem         == ~IsoBefore(call.args[3], end)
        IN  /\ call.result = Valid
                <=> (endNotBeforeStart /\ startInItem /\ endInItem)
            /\ ~endNotBeforeStart => call.result = EndBeforeStart
            /\ (endNotBeforeStart /\ ~startInItem) => call.result = StartBeforeItemStart
            /\ (endNotBeforeStart /\ startInItem /\ ~endInItem)
                  => call.result = EndAfterItemEnd
            /\ (/\ st.overrideStartDate = <<2026, 1, 20>>
                /\ st.overrideEndDate = <<2026, 1, 25>>
                /\ call.args[2] = <<2026, 1, 1>>
                /\ call.args[3] = <<2026, 1, 14>>) => call.result = EndAfterItemEnd

\* the override 01-20..01-25 has been validated against the item 01-01..01-14
ValidateFirstFailingCheck_Witness ==
    /\ call.fn = "validateSubtaskOverride"
    /\ call.args[1].overrideStartDate = <<2026, 1, 20>>
    /\ call.args[1].overrideEndDate = <<2026, 1, 25>>
    /\ call.args[2] = <<2026, 1, 1>>
    /\ call.args[3] = <<2026, 1, 14>>
    /\ call.result = EndAfterItemEnd

\* C16: the effective range of a subtask takes each boundary from the override
\* when that override is present and from the auto date otherwise, in each of
\* the four combinations of the two overrides being present or absent.
EffectiveDatesPerBoundary ==
    call.fn = "getEffectiveDates" =>
        LET st == call.args[1]
            os == st.overrideStartDate
            oe == st.overrideEndDate
        IN  /\ (os = Undefined /\ oe = Undefined) =>
                  call.result = [start |-> st.autoStartDate, end |-> st.autoEndDate]
            /\ (os # Undefined /\ oe = Undefined) =>
                  call.result = [start |-> os, end |-> st.autoEndDate]
            /\ (os = Undefined /\ oe # Undefined) =>
                  call.result = [start |-> st.autoStartDate, end |-> oe]
            /\ (os # Undefined /\ oe # Undefined) =>
                  call.result = [start |-> os, end |-> oe]

\* only the start is overridden: the end is the auto end
EffectiveDatesPerBoundary_Witness ==
    /\ call.fn = "getEffectiveDates"
    /\ call.args[1].overrideStartDate = <<2026, 1, 6>>
    /\ call.args[1].overrideEndDate = Undefined
    /\ call.result = [start |-> <<2026, 1, 6>>, end |-> call.args[1].autoEndDate]

\* the bounds recalculateSubtasks is called for, as date strings
RecalcItemStart == toISODateString(sprintStartDate(call.args[2], sprintConfig))
RecalcItemEnd == toISODateString(sprintEndDate(call.args[3], sprintConfig))

\* the subtasks handed to recalculateSubtasks are those of an item of the same bounds
RecalcSameBounds ==
    LET fresh == generateSubtasks(call.args[2], call.args[3], sprintConfig, LaterIds)
    IN  \A i \in 1 .. Len(fresh) :
            /\ call.args[1][i].autoStartDate = fresh[i].autoStartDate
            /\ call.args[1][i].autoEndDate = fresh[i].autoEndDate

\* C17: an override that is valid under an item's bounds survives
\* recalculateSubtasks with the same bounds: the subtask of that type comes
\* back with the same override start and end, and the same auto dates.
OverrideSurvivesSameBounds ==
    (call.fn = "recalculateSubtasks" /\ RecalcSameBounds) =>
        \A i \in 1 .. Len(call.args[1]) :
            LET existing == call.args[1][i]
            IN  (/\ HasOverride(existing)
                 /\ validateSubtaskOverride(existing, RecalcItemStart, RecalcItemEnd) = Valid)
                => /\ call.result[i].type = existing.type
                   /\ call.result[i].overrideStartDate = existing.overrideStartDate
                   /\ call.result[i].overrideEndDate = existing.overrideEndDate
                   /\ call.result[i].autoStartDate = existing.autoStartDate
                   /\ call.result[i].autoEndDate = existing.autoEndDate

\* a DEV override 01-06..01-13 inside sprint 71, recalculated for sprint 71 again
OverrideSurvivesSameBounds_Witness ==
    /\ call.fn = "recalculateSubtasks"
    /\ RecalcSameBounds
    /\ sprintConfig = DEFAULT_CONFIG
    /\ call.args[2] = 71 /\ call.args[3] = 71
    /\ call.args[1][2].overrideStartDate = <<2026, 1, 6>>
    /\ call.args[1][2].overrideEndDate = <<2026, 1, 13>>
    /\ call.result[2].overrideStartDate = <<2026, 1, 6>>
    /\ call.result[2].overrideEndDate = <<2026, 1, 13>>

\* C18: recalculateSubtasks with new bounds drops an override whose effective
\* range (the override where present, the recomputed auto date otherwise) fails
\* validation against the new bounds: the subtask comes back with no override
\* fields and its effective range is its fresh auto range. It keeps an override
\* that still validates: shrinking an item from sprints 71-72 to sprint 71 keeps
\* a QA override lying inside sprint 71's window.
RecalcDropsInvalidOverride ==
    call.fn = "recalculateSubtasks" =>
        LET fresh == generateSubtasks(call.args[2], call.args[3], sprintConfig, LaterIds)
        IN  /\ \A i \in 1 .. Len(call.args[1]) :
              LET existing == call.args[1][i]
                  start == IF existing.overrideStartDate # Undefined
                           THEN existing.overrideStartDate ELSE fresh[i].autoStartDate
                  end   == IF existing.overrideEndDate # Undefined
                           THEN existing.overrideEndDate ELSE fresh[i].autoEndDate
                  stillValid == /\ ~IsoBefore(end, start)
                                /\ ~IsoBefore(start, RecalcItemStart)
                                /\ ~IsoBefore(RecalcItemEnd, end)
              IN  /\ call.result[i].autoStartDate = fresh[i].autoStartDate
                  /\ call.result[i].autoEndDate = fresh[i].autoEndDate
                  /\ (HasOverride(existing) /\ ~stillValid) =>
                        /\ call.result[i].overrideStartDate = Undefined
                        /\ call.result[i].overrideEndDate = Undefined
                        /\ getEffectiveDates(call.result[i])
                              = [start |-> fresh[i].autoStartDate,
                                 end   |-> fresh[i].autoEndDate]
                  /\ (HasOverride(existing) /\ stillValid) =>
                        /\ call.result[i].overrideStartDate = existing.overrideStartDate
                        /\ call.result[i].overrideEndDate = existing.overrideEndDate
            /\ (/\ sprintConfig = DEFAULT_CONFIG
                /\ call.args[1][3].autoEndDate = <<2026, 1, 28>>
                /\ call.args[2] = 71 /\ call.args[3] = 71
                /\ call.args[1][3].overrideStartDate = <<2026, 1, 13>>
                /\ call.args[1][3].overrideEndDate = <<2026, 1, 14>>)
               => /\ call.result[3].overrideStartDate = <<2026, 1, 13>>
                  /\ call.result[3].overrideEndDate = <<2026, 1, 14>>

\* an item shrunk from sprints 71-72 to sprint 71 loses a QA override that lay
\* in sprint 72
RecalcDropsInvalidOverride_Witness ==
    /\ call.fn = "recalculateSubtasks"
    /\ sprintConfig = DEFAULT_CONFIG
    /\ call.args[1][3].autoEndDate = <<2026, 1, 28>>
    /\ call.args[2] = 71 /\ call.args[3] = 71
    /\ call.args[1][3].overrideStartDate = <<2026, 1, 20>>
    /\ call.args[1][3].overrideEndDate = <<2026, 1, 25>>
    /\ call.result[3].overrideStartDate = Undefined
    /\ call.result[3].autoEndDate = <<2026, 1, 14>>

----------------------------------------------------------------------------
(* Termination of the sprint scan *)

\* C11: getSprintForDate terminates for every date and configuration, a zero or
\* negative workingDaysPerSprint included: the scan examines no sprint beyond
\* the 1001 numbered firstSprintNumber .. firstSprintNumber + 1000, every scan
\* under way reaches its return, and when none of those sprints ends on or
\* after the date the value returned is firstSprintNumber + 1001.
ScanTerminatesAtCap ==
    /\ [](scan.pc = "loop" =>
            scan.sprintNum \in sprintConfig.firstSprintNumber
                               .. (sprintConfig.firstSprintNumber + SCAN_LIMIT))
    /\ [](scan.pc = "done" =>
            /\ scan.sprintNum = getSprintForDate(scan.date, sprintConfig)
            /\ scan.sprintNum <= sprintConfig.firstSprintNumber + SCAN_LIMIT + 1
            /\ (/\ scan.date >= parseISO(sprintConfig.firstSprintStartDate)
                /\ \A n \in sprintConfig.firstSprintNumber
                             .. (sprintConfig.firstSprintNumber + SCAN_LIMIT) :
                      scan.date > sprintEndDate(n, sprintConfig))
               => scan.sprintNum = sprintConfig.firstSprintNumber + SCAN_LIMIT + 1)
    /\ ((scan.pc = "loop") ~> (scan.pc = "done"))

\* a scan under a non-positive sprint length has left through the safety check
ScanTerminatesAtCap_Witness ==
    /\ scan.pc = "done"
    /\ sprintConfig.workingDaysPerSprint <= 0
    /\ scan.sprintNum = sprintConfig.firstSprintNumber + SCAN_LIMIT + 1

----------------------------------------------------------------------------
(* Properties of the store's items *)

\* the bounds of an item as date strings: its sprints' window when it has
\* sprints, its own dates otherwise
ItemBounds(item, config) ==
    IF item.startSprint # Undefined
    THEN [start |-> toISODateString(sprintStartDate(item.startSprint[1], config)),
          end   |-> toISODateString(sprintEndDate(item.endSprint[1], config))]
    ELSE [start |-> item.startDate, end |-> item.endDate]

\* what generateSubtasks gives for an item's duration, in its sprint form or its
\* date form
ExpectedSubtasks(item, config) ==
    IF item.startSprint # Undefined
    THEN generateSubtasks(item.startSprint[1], item.endSprint[1], config, FirstIds)
    ELSE generateSubtasksFromDates(item.startDate, item.endDate, FirstIds)

\* an item's duration: its sprints when it is sprint-based, its dates otherwise
DurationOf(item) ==
    IF item.startSprint # Undefined
    THEN <<item.startSprint, item.endSprint>>
    ELSE <<item.startDate, item.endDate>>

\* C19: whenever updateItem changes an item's duration, be the item sprint-based
\* or date-based (a step that gives a sprint-based item other sprints, or a
\* date-based item other dates), its subtasks carry the auto dates recomputed
\* for the new duration, every override that still validates against the new
\* bounds is kept, and only the overrides that do not are discarded.
UpdateItemKeepsValidOverrides ==
    [][\A k \in 1 .. Len(items) :
          (/\ k <= Len(items')
           /\ items'[k].id = items[k].id
           /\ (items'[k].startSprint = Undefined) <=> (items[k].startSprint = Undefined)
           /\ DurationOf(items'[k]) # DurationOf(items[k]))
          => LET bounds == ItemBounds(items'[k], sprintConfig)
                 fresh  == ExpectedSubtasks(items'[k], sprintConfig)
             IN  \A j \in 1 .. Len(items[k].subtasks) :
                   LET old   == items[k].subtasks[j]
                       new   == items'[k].subtasks[j]
                       start == IF old.overrideStartDate # Undefined
                                THEN old.overrideStartDate ELSE fresh[j].autoStartDate
                       end   == IF old.overrideEndDate # Undefined
                                THEN old.overrideEndDate ELSE fresh[j].autoEndDate
                       stillValid == /\ ~IsoBefore(end, start)
                                     /\ ~IsoBefore(start, bounds.start)
                                     /\ ~IsoBefore(bounds.end, end)
                   IN  /\ new.autoStartDate = fresh[j].autoStartDate
                       /\ new.autoEndDate = fresh[j].autoEndDate
                       /\ (HasOverride(old) /\ stillValid) =>
                             /\ new.overrideStartDate = old.overrideStartDate
                             /\ new.overrideEndDate = old.overrideEndDate
                       /\ (HasOverride(old) /\ ~stillValid) =>
                             /\ new.overrideStartDate = Undefined
                             /\ new.overrideEndDate = Undefined]_vars

\* C20: after any sequence of store operations, every subtask's autoStartDate
\* and autoEndDate are the dates generateSubtasks computes for the parent
\* item's current duration under the current sprint configuration.
AutoDatesMatchDuration ==
    \A k \in 1 .. Len(items) :
        LET fresh == ExpectedSubtasks(items[k], sprintConfig)
        IN  \A j \in 1 .. Len(items[k].subtasks) :
                /\ items[k].subtasks[j].autoStartDate = fresh[j].autoStartDate
                /\ items[k].subtasks[j].autoEndDate = fresh[j].autoEndDate

----------------------------------------------------------------------------
(* Properties of the item form, the item list and the timeline *)

SprintOnly(item) ==
    /\ item.startSprint # Undefined /\ item.endSprint # Undefined
    /\ item.startDate = Undefined /\ item.endDate = Undefined

DateOnly(item) ==
    /\ item.startDate # Undefined /\ item.endDate # Undefined
    /\ item.startSprint = Undefined /\ item.endSprint = Undefined

\* C21: after any sequence of item operations of the item form and the item
\* list, every item carries exactly one timing representation: both sprints and
\* no date, or both dates and no sprint.
OneTimingRepresentation ==
    \A k \in 1 .. Len(items) : SprintOnly(items[k]) \/ DateOnly(items[k])

\* C22: generateSubtasks called with endSprint < startSprint, and
\* generateSubtasksFromDates called with endDate < startDate, do not return
\* three subtasks.
InvertedRangeRejected ==
    /\ (call.fn = "generateSubtasks" /\ call.args[2] < call.args[1])
          => Len(call.result) # Len(SUBTASK_ORDER)
    /\ (call.fn = "generateSubtasksFromDates"
          /\ NewDate(call.args[2]) < NewDate(call.args[1]))
          => Len(call.result) # Len(SUBTASK_ORDER)

\* C24: when the bar of a subtask is dropped on a range [s, e] that leaves its
\* parent's bounds, for a sprint-based and for a date-based parent, the parent's
\* range afterwards contains [s, e] and the moved subtask carries the override
\* (s, e), so that its effective range is [s, e] within the parent's bounds.
SubtaskMoveExpandsParent ==
    [][\A k \in 1 .. Len(items), j \in 1 .. Len(SUBTASK_ORDER), r \in SubtaskMoveRanges :
          LET s == fromISODateString(r[1])
              e == fromISODateString(r[2])
              parent == ParentBounds(items[k], sprintConfig)
          IN  (MoveSubtaskBar(k, j, s, e) /\ (s < parent.start \/ e > parent.end)) =>
                LET after == ItemBounds(items'[k], sprintConfig)
                    moved == items'[k].subtasks[j]
                IN  /\ ~IsoBefore(r[1], after.start)
                    /\ ~IsoBefore(after.end, r[2])
                    /\ moved.type = SUBTASK_ORDER[j]
                    /\ moved.overrideStartDate = r[1]
                    /\ moved.overrideEndDate = r[2]
                    /\ getEffectiveDates(moved) = [start |-> r[1], end |-> r[2]]
      ]_vars

----------------------------------------------------------------------------
(* Properties of the override operations *)

\* the step is updateSubtaskOverride(items[k].id, items[k].subtasks[j].id, startDate,
\* endDate), or resetSubtaskOverride of that subtask when both dates are undefined
OverrideStep(k, j, startDate, endDate) ==
    /\ items' = SetOverride(items, items[k].id, items[k].subtasks[j].id,
                            startDate, endDate)
    /\ UNCHANGED <<sprintConfig, call, scan, settings>>

\* C25: updateSubtaskOverride and resetSubtaskOverride change only the override
\* fields of the targeted subtask: its id, type and auto dates, every other
\* subtask and every other item stay as they were; the dates given are stored
\* whether or not they respect the item's bounds; after resetSubtaskOverride the
\* subtask's effective dates are its auto dates.
OverrideChangesOnlyTarget ==
    [][\A k \in 1 .. Len(items), j \in 1 .. Len(SUBTASK_ORDER),
          dates \in StoreOverrideChoices \cup {<<Undefined, Undefined>>} :
          OverrideStep(k, j, dates[1], dates[2]) =>
            LET before == items[k].subtasks[j]
                after == items'[k].subtasks[j]
            IN  /\ Len(items') = Len(items)
                /\ \A h \in 1 .. Len(items) : h # k => items'[h] = items[h]
                /\ \A f \in DOMAIN items[k] \ {"subtasks"} : items'[k][f] = items[k][f]
                /\ Len(items'[k].subtasks) = Len(items[k].subtasks)
                /\ \A i \in 1 .. Len(items[k].subtasks) :
                      i # j => items'[k].subtasks[i] = items[k].subtasks[i]
                /\ after.id = before.id
                /\ after.type = before.type
                /\ after.autoStartDate = before.autoStartDate
                /\ after.autoEndDate = before.autoEndDate
                /\ after.overrideStartDate = dates[1]
                /\ after.overrideEndDate = dates[2]
                /\ dates = <<Undefined, Undefined>> =>
                      getEffectiveDates(after) = [start |-> before.autoStartDate,
                                                  end |-> before.autoEndDate]
      ]_vars

\* the one-day item holds an override for DEV that ends after the item's end, the
\* other subtasks and the other item hold none
OverrideChangesOnlyTarget_Witness ==
    /\ Len(items) = 2
    /\ items[1].startDate = <<2026, 1, 1>>
    /\ items[1].endDate = <<2026, 1, 1>>
    /\ items[1].subtasks[2].overrideStartDate = <<2026, 1, 6>>
    /\ items[1].subtasks[2].overrideEndDate = <<2026, 1, 8>>
    /\ validateSubtaskOverride(items[1].subtasks[2], items[1].startDate,
                               items[1].endDate) = EndAfterItemEnd
    /\ ~HasOverride(items[1].subtasks[1])
    /\ ~HasOverride(items[1].subtasks[3])
    /\ \A j \in 1 .. Len(items[2].subtasks) : ~HasOverride(items[2].subtasks[j])

----------------------------------------------------------------------------
(* Properties of export and import *)

----------------------------------------------------------------------------
(* Properties of the order of the item list *)

\* the ids of orderedIds that name an item of the list, each at its first occurrence
FirstOccurrences(its, orderedIds) ==
    LET ids == {its[k].id : k \in 1 .. Len(its)}
        positions == {p \in 1 .. Len(orderedIds) :
                        /\ orderedIds[p] \in ids
                        /\ \A q \in 1 .. (p - 1) : orderedIds[q] # orderedIds[p]}
    IN  [i \in 1 .. Cardinality(positions) |->
            orderedIds[CHOOSE p \in positions :
                          Cardinality({q \in positions : q < p}) = i - 1]]

\* C28: for every orderedIds, reorderItems(orderedIds) yields a permutation of
\* the previous list (no item lost, duplicated or altered): the items whose ids
\* occur in orderedIds come first, in the order of their first occurrence, ids
\* of no item are ignored, and the items not named follow in their previous
\* relative order.
ReorderIsPermutation ==
    [][\A orderedIds \in IdSeqs({items[k].id : k \in 1 .. Len(items)} \cup {0},
                                MaxOrderedIds) :
          (/\ items' = Reordered(items, orderedIds)
           /\ UNCHANGED <<sprintConfig, call, scan, settings>>) =>
            LET named == FirstOccurrences(items, orderedIds)
                isNamed(item) == \E p \in 1 .. Len(named) : named[p] = item.id
            IN  /\ Len(items') = Len(items)
                /\ \A k \in 1 .. Len(items) :
                      Cardinality({h \in 1 .. Len(items') : items'[h] = items[k]}) = 1
                /\ \A p \in 1 .. Len(named) : items'[p].id = named[p]
                /\ SubSeq(items', Len(named) + 1, Len(items'))
                      = SelectSeq(items, LAMBDA item : ~isNamed(item))
      ]_vars

\* three items of sprint 71, which sorting leaves in place, in the order 9, 1, 5
ReorderIsPermutation_Witness ==
    /\ Len(items) = 3
    /\ \A k \in 1 .. 3 : items[k].startSprint = Some(DEFAULT_CONFIG.firstSprintNumber)
    /\ <<items[1].id, items[2].id, items[3].id>> = <<9, 1, 5>>

----------------------------------------------------------------------------
(* Properties of the subtasks every stored item holds *)

\* C29: after any sequence of addItemBySprint, addItemByDate, addFromPool,
\* updateItem, updateSubtaskOverride, resetSubtaskOverride, reorderItems,
\* sortItemsByStartDate and deleteItem, every item of the store has exactly
\* three subtasks, one of each type, in the order REQ_UX, DEV, QA.
ItemsKeepThreeSubtasks ==
    \A k \in 1 .. Len(items) :
        /\ Len(items[k].subtasks) = Len(SUBTASK_ORDER)
        /\ \A j \in 1 .. Len(SUBTASK_ORDER) :
              items[k].subtasks[j].type = SUBTASK_ORDER[j]

\* a sprint-based item of more than one sprint, one of whose subtasks holds an
\* override, under a sprint length other than the default
ItemsKeepThreeSubtasks_Witness ==
    /\ Len(items) = 1
    /\ items[1].startSprint # Undefined
    /\ items[1].startSprint # items[1].endSprint
    /\ sprintConfig.workingDaysPerSprint # DEFAULT_CONFIG.workingDaysPerSprint
    /\ \E j \in 1 .. Len(items[1].subtasks) : HasOverride(items[1].subtasks[j])
    /\ [j \in 1 .. Len(items[1].subtasks) |-> items[1].subtasks[j].type] = SUBTASK_ORDER

----------------------------------------------------------------------------
(* Properties of the rebalancing branch of allocateWorkingDays *)

\* C30: for every totalWorkingDays >= 3 the raw development allocation,
\* total - 2 * max(1, round(0.20 * total)), is at least 1, so the rebalancing
\* branch (devDays below the minimum, shrinking REQ_UX and QA) is not taken:
\* the result is the raw allocation, and REQ_UX equals QA.
RebalancingNeverTaken ==
    (call.fn = "allocateWorkingDays" /\ call.args[1] >= 3) =>
        LET total      == call.args[1]
            rawReqDays == Max(1, RoundFifth(total))
            rawDevDays == total - 2 * rawReqDays
        IN  /\ rawDevDays >= 1
            /\ call.result = [REQ_UX |-> rawReqDays, DEV |-> rawDevDays, QA |-> rawReqDays]
            /\ call.result.REQ_UX = call.result.QA

\* the tightest case, 3 working days, where the raw development allocation is
\* exactly the minimum, and the largest explored total
RebalancingNeverTaken_Witness ==
    /\ call.fn = "allocateWorkingDays"
    /\ \/ /\ call.args[1] = 3
          /\ call.args[1] - 2 * Max(1, RoundFifth(call.args[1])) = 1
          /\ call.result.DEV = 1
       \/ /\ call.args[1] = MaxTotal
          /\ call.result.REQ_UX = call.result.QA
          /\ call.result.DEV >= 1

====
